---- MODULE Spec2Model ----
(***************************************************************************)
(* Model of torch::autograd::AccumulateGrad::apply                         *)
(* (src/torch/csrc/autograd/functions/accumulate_grad.cpp).                *)
(*                                                                         *)
(* One AccumulateGrad node bound to one variable; several engine worker    *)
(* threads call apply on it.  A tensor is a record: whether it is defined, *)
(* the identity of its storage and its flattened values.                   *)
(***************************************************************************)
EXTENDS Integers, Sequences, FiniteSets, TLC

\* ------------------------------------------------------------------ bounds
NumThreads == 2      \* engine worker threads calling apply on the node
MaxCalls == 2        \* apply calls made in one behaviour, over all threads
MaxUseCount == 3     \* largest use_count of an incoming gradient
MaxPostHooks == 1    \* largest number of function post hooks on the node
VarNumel == 2        \* number of elements of the variable

Threads == 1..NumThreads
NoThread == 0        \* value of mutex_ when no thread owns it

\* ------------------------------------------------------------------ tensors
Undefined == [defined |-> FALSE, storage |-> 0, val |-> <<>>]
MkTensor(s, v) == [defined |-> TRUE, storage |-> s, val |-> v]

Fill(n, x) == [i \in 1..n |-> x]
Ramp(n) == [i \in 1..n |-> i]
\* Values of the gradients the engine hands to apply: an all-ones tensor and a
\* ramp of the variable's shape, and one tensor of another shape.
GoodVals == {Fill(VarNumel, 1), Ramp(VarNumel)}
BadVals == {Fill(VarNumel + 1, 1)}
GradVals == GoodVals \cup BadVals

InStorage(k) == 2 * k          \* storage of the gradient passed to call k
CloneStorage(k) == 2 * k + 1   \* storage a clone made in call k gets

AddVals(a, b) == [i \in 1..Len(a) |-> a[i] + b[i]]

\* ------------------------------------------------------------------ state
VARIABLES
    requires_grad,   \* variable.requires_grad()
    grad_fn,         \* variable.grad_fn() is non-null
    post_hooks,      \* number of function post hooks of the node (post_hooks())
    tensor_post_acc_grad_hooks, \* tensor_post_acc_grad_hooks() != nullptr
    grad,            \* variable.mutable_grad(): the leaf's .grad slot
    mutex_,          \* owner of the node's mutex_, NoThread when free
    ncalls,          \* apply calls started so far
    pc,              \* per thread: position inside apply
    callId,          \* per thread: index of the call it is running or ran last
    grads,           \* per thread: the argument list of its call
    use_count,       \* per thread: use_count of grads[0] at call time
    upd,             \* per thread: grad_update handed to the commit callback
    result,          \* per thread: how its last call ended
    nexp,            \* per thread: num_expected_refs computed by its call
    sawEmpty,        \* per thread: .grad was undefined when its call read it
    commits,         \* per thread: runs of the commit callback in its call
    hookRuns,        \* per thread: runs of the post-acc-grad hook in its call
    hookSawUpdate,   \* per thread: the hook saw .grad equal to the update
    initialGrad,     \* .grad when the node was constructed
    applied          \* elementwise sum of the gradients of the returned calls

agvars == <<requires_grad, grad_fn, post_hooks, tensor_post_acc_grad_hooks,
            grad, mutex_, ncalls, pc, callId, grads, use_count, upd, result,
            nexp, sawEmpty, commits, hookRuns, hookSawUpdate, initialGrad,
            applied>>

leafvars == <<requires_grad, grad_fn, post_hooks, tensor_post_acc_grad_hooks,
              initialGrad>>

\* ------------------------------------------------- state of the other parts
\* Several AccumulateGrad nodes, one per leaf, called by the engine's threads.
NumLeaves == 2       \* leaves, each with its own AccumulateGrad node
Leaves == 1..NumLeaves
VARIABLES
    lf_mutex,        \* per mutex: its owner, NoThread when free
    lf_pc,           \* per thread: position inside apply
    lf_leaf,         \* per thread: the leaf whose node it called apply on
    lf_hook,         \* per leaf: tensor_post_acc_grad_hooks() != nullptr
    lf_reenter,      \* the hooks call apply on their own leaf again
    lf_result        \* per thread: how its last call ended
lfvars == <<lf_mutex, lf_pc, lf_leaf, lf_hook, lf_reenter, lf_result>>
LfIdle ==
    /\ lf_mutex = [n \in Leaves |-> NoThread]
    /\ lf_pc = [t \in Threads |-> "idle"]
    /\ lf_leaf = [t \in Threads |-> 1]
    /\ lf_hook = [n \in Leaves |-> FALSE]
    /\ lf_reenter = FALSE
    /\ lf_result = [t \in Threads |-> "none"]

\* The engine's ready queue of one backward pass.
MaxNodes == 3        \* nodes of the backward graph
NodeIds == 1..MaxNodes
VARIABLES
    eng_kind,        \* per node: "none" (not constructed), "AccumulateGrad", "Other"
    eng_seq,         \* per node: its sequence_nr, a 64-bit number in 16-bit limbs
    eng_counter,     \* the sequence number the next other node gets
    eng_ready,       \* the nodes in the ready queue
    eng_ran,         \* the nodes that have run
    eng_popped,      \* the node the last pop took, 0 before the first
    eng_seen         \* the ready queue the last pop chose from
engvars == <<eng_kind, eng_seq, eng_counter, eng_ready, eng_ran, eng_popped, eng_seen>>
EngIdle ==
    /\ eng_kind = [i \in NodeIds |-> "none"]
    /\ eng_seq = [i \in NodeIds |-> <<0, 0, 0, 0>>]
    /\ eng_counter = 0
    /\ eng_ready = {}
    /\ eng_ran = {}
    /\ eng_popped = 0
    /\ eng_seen = {}

\* The generator factory registered for PrivateUse1.
MaxGenCalls == 4     \* calls of the registration functions and lookups
VARIABLES
    gen_slot,        \* the registered factory: "none", or the function that registered it
    gen_static,      \* the registration functions whose function-local static is initialised
    gen_log          \* the calls made so far, each with its outcome
genvars == <<gen_slot, gen_static, gen_log>>
GenIdle ==
    /\ gen_slot = "none"
    /\ gen_static = {}
    /\ gen_log = <<>>

\* The PrivateUse1 hooks object of the extension.
Null == [kind |-> "null", id |-> 0]
NoRet == [kind |-> "none", id |-> 0]
VARIABLES
    hk_registered,   \* PrivateUse1HooksRegistry has a creator under "FooHooks"
    hk_once,         \* the once_flag of get_private_hooks: "unset", "running", "set"
    hk_local,        \* privateuse1_hooks_local
    hk_created,      \* hooks objects constructed so far
    hk_pc,           \* per thread: position inside get_private_hooks
    hk_fn,           \* per thread: the function it called
    hk_ret           \* per thread: the pointer its last call got, NoRet before
hkvars == <<hk_registered, hk_once, hk_local, hk_created, hk_pc, hk_fn, hk_ret>>
HkIdle ==
    /\ hk_registered = TRUE
    /\ hk_once = "unset"
    /\ hk_local = Null
    /\ hk_created = 0
    /\ hk_pc = [t \in Threads |-> "idle"]
    /\ hk_fn = [t \in Threads |-> "none"]
    /\ hk_ret = [t \in Threads |-> NoRet]

\* The XPU device pool.
MaxDevices == 2      \* GPU devices the SYCL runtime can report
MaxInitRuns == 2     \* runs of initGlobalDevicePoolState in one behaviour
VARIABLES
    xpu_sys,         \* the GPU devices the SYCL runtime reports
    xpu_flag,        \* init_flag: "unset", "running", "set"
    xpu_devices,     \* gDevicePool.devices.size()
    xpu_context,     \* gDevicePool.context is non-null
    xpu_enumRuns,    \* runs of enumDevices so far
    xpu_pc,          \* per thread: position inside the XPU function it called
    xpu_fn,          \* per thread: the XPU function it called
    xpu_cur,         \* per thread: curDeviceIndex
    xpu_out          \* how the last finished call ended: "none", "ok", "error"
xpuvars == <<xpu_sys, xpu_flag, xpu_devices, xpu_context, xpu_enumRuns,
             xpu_pc, xpu_fn, xpu_cur, xpu_out>>
XpuIdle ==
    /\ xpu_sys = 0
    /\ xpu_flag = "unset"
    /\ xpu_devices = 0
    /\ xpu_context = FALSE
    /\ xpu_enumRuns = 0
    /\ xpu_pc = [t \in Threads |-> "idle"]
    /\ xpu_fn = [t \in Threads |-> "none"]
    /\ xpu_cur = [t \in Threads |-> 0]
    /\ xpu_out = "none"

\* getAccelerator and the accelerators the build and machine offer.
VARIABLES
    acc_pu1,         \* is_privateuse1_backend_registered()
    acc_has,         \* the accelerators X for which at::hasX() is true
    acc_checked,     \* the argument of getAccelerator
    acc_result       \* what getAccelerator(acc_checked) gave, "pending" before
accvars == <<acc_pu1, acc_has, acc_checked, acc_result>>
AccIdle ==
    /\ acc_pu1 = FALSE
    /\ acc_has = {}
    /\ acc_checked = FALSE
    /\ acc_result = [kind |-> "pending", dev |-> "none"]

\* Deadlock detection: the Python GIL hooks.
MaxGILCalls == 3     \* calls of SetPythonGILHooks, check_python_gil and the environment
NumGILHooks == 2     \* hooks objects a caller can pass
NullHooks == 0
VARIABLES
    dd_env,          \* TORCH_DISABLE_DEADLOCK_DETECTION is present in the environment
    dd_envHeld,      \* ... and has been ever since the process started
    dd_hooks,        \* python_gil_hooks: NullHooks or a hooks object
    dd_log           \* the calls made so far, each with its argument and outcome
ddvars == <<dd_env, dd_envHeld, dd_hooks, dd_log>>
DdIdle ==
    /\ dd_env = FALSE
    /\ dd_envHeld = FALSE
    /\ dd_hooks = NullHooks
    /\ dd_log = <<>>

\* The dispatcher and the kernels of the PrivateUse1 extension.
MaxDepth == 6        \* kernels one operator call may invoke
DispOps == {"add.Tensor", "sub.Tensor", "mul.Tensor"}
\* The dispatch keys, highest priority first: functionality keys, then backends.
KeyOrder == <<"Tracer", "Autograd", "PrivateUse1", "CPU">>
DispKeys == {KeyOrder[i] : i \in 1..Len(KeyOrder)}
FunctionalityKeys == {"Tracer", "Autograd"}
BackendKeys == {"PrivateUse1", "CPU"}
VARIABLES
    disp_table,      \* per operator and key: the registered kernel, or "none"
    disp_fallback,   \* per key: the registered boxed fallback, or "none"
    disp_status,     \* "idle", "running", "in_fallback", "done", "error"
    disp_op,         \* the operator being called
    disp_keys0,      \* the key set computed for the call
    disp_keys,       \* the key set the next dispatch gets
    disp_trace,      \* the kernels invoked so far, each with the key set it received
    disp_result      \* the result of the call
dispvars == <<disp_table, disp_fallback, disp_status, disp_op, disp_keys0,
              disp_keys, disp_trace, disp_result>>
\* TORCH_LIBRARY_IMPL(aten, PrivateUse1, m), both blocks, for the operators
\* modelled; every operator has its CPU kernel and the wrappers of the
\* functionality keys.
PrivateUse1Kernel_SubMissing(op) ==
    IF op = "add.Tensor" THEN "custom_add_Tensor" ELSE "none"
PrivateUse1Kernel(op) ==
    IF op = "add.Tensor" THEN "custom_add_Tensor"
    ELSE IF op = "sub.Tensor" THEN "custom_cpu_fallback"
    ELSE "none"
StaticTable ==
    [op \in DispOps |->
        [k \in DispKeys |->
            IF k = "PrivateUse1" THEN PrivateUse1Kernel(op)
            ELSE IF k = "CPU" THEN "cpu_kernel"
            ELSE "wrapper"]]
DispIdle ==
    /\ disp_table = StaticTable
    /\ disp_fallback = [k \in DispKeys |-> "none"]
    /\ disp_status = "idle"
    /\ disp_op = "none"
    /\ disp_keys0 = {}
    /\ disp_keys = {}
    /\ disp_trace = <<>>
    /\ disp_result = "none"

\* Kernel registration in the dispatch table.
MaxRegCalls == 3     \* registrations and dispatches on the kernel table
VARIABLES
    kr_table,        \* per operator and key: the live kernel, or "none"
    kr_log           \* the registrations and dispatches so far, with their outcomes
krvars == <<kr_table, kr_log>>
KrIdle ==
    /\ kr_table = StaticTable
    /\ kr_log = <<>>

\* DebugInfoWriter: the process-wide writer of NCCL debug dumps.
VARIABLES
    dw_writer,       \* writer_: Null or a writer
    dw_has,          \* hasWriterRegistered_
    dw_pc,           \* per thread: position inside getWriter / registerWriter
    dw_fn,           \* per thread: the function it called
    dw_arg,          \* per thread: the writer its registerWriter was given
    dw_out,          \* per thread: how its last call ended
    dw_regs,         \* registerWriter calls that returned without error
    dw_first,        \* the writer the first finished getWriter returned
    dw_changed       \* a later getWriter returned another writer
dwvars == <<dw_writer, dw_has, dw_pc, dw_fn, dw_arg, dw_out, dw_regs, dw_first,
            dw_changed>>
DwIdle ==
    /\ dw_writer = Null
    /\ dw_has = FALSE
    /\ dw_pc = [t \in Threads |-> "idle"]
    /\ dw_fn = [t \in Threads |-> "none"]
    /\ dw_arg = [t \in Threads |-> Null]
    /\ dw_out = [t \in Threads |-> "none"]
    /\ dw_regs = 0
    /\ dw_first = Null
    /\ dw_changed = FALSE

\* The call counter of the extension's add.Tensor kernel.
MaxAddCalls == 6     \* calls of custom_add_Tensor and custom_add_called
VARIABLES
    add_counter,     \* add_counter
    last_saved_value, \* last_saved_value
    cnt_log          \* the calls so far: "add", or "query" with what it returned
cntvars == <<add_counter, last_saved_value, cnt_log>>
CntIdle ==
    /\ add_counter = 0
    /\ last_saved_value = 0
    /\ cnt_log = <<>>

\* NCCLComm objects: one made by create, split or the default constructor, and
\* the objects move-constructed from it.
MaxAbortCalls == 3   \* calls of NCCLComm::ncclCommAbort made in one behaviour
MaxMoves == 1        \* move constructions made in one behaviour
NcObjects == 1..(MaxMoves + 1)
VARIABLES
    nc_comm,         \* per object: ncclComm_: "comm", "null", or "garbage" (never set)
    nc_aborted,      \* per object: aborted_
    nc_initialized,  \* per object: initialized_
    nc_alive,        \* per object: "none" (not constructed), "alive", "destroyed"
    nc_calls,        \* calls of NCCLComm::ncclCommAbort so far
    nc_log           \* the calls made into NCCL to abort or destroy
ncvars == <<nc_comm, nc_aborted, nc_initialized, nc_alive, nc_calls, nc_log>>
NcIdle ==
    /\ nc_comm = [o \in NcObjects |-> "null"]
    /\ nc_aborted = [o \in NcObjects |-> FALSE]
    /\ nc_initialized = [o \in NcObjects |-> FALSE]
    /\ nc_alive = [o \in NcObjects |-> "none"]
    /\ nc_calls = 0
    /\ nc_log = <<>>

\* The NCCL flight recorder's ring buffer.
MaxEntries == 2      \* max_entries_ of an enabled buffer
MaxRecords == 4      \* calls of NCCLTraceBuffer::record
MaxRetires == 2      \* calls of NCCLTraceBuffer::retire_id
VARIABLES
    tb_max,          \* max_entries_
    tb_entries,      \* entries_
    tb_next,         \* next_
    tb_id,           \* id_
    tb_ret,          \* what the record calls returned, in call order
    tb_dump,         \* the ids of the entries the last dump_entries returned
    tb_mutex,        \* mutex_: "free", or "watchdog" while retire_id holds it
    tb_pc,           \* where the watchdog's retire_id is: "idle" or "duration"
    tb_arg,          \* the id passed to retire_id
    tb_retires,      \* calls of retire_id so far
    tb_out           \* how the last retire_id ended
tbvars == <<tb_max, tb_entries, tb_next, tb_id, tb_ret, tb_dump, tb_mutex,
            tb_pc, tb_arg, tb_retires, tb_out>>
TbIdle ==
    /\ tb_max = 0
    /\ tb_entries = <<>>
    /\ tb_next = 0
    /\ tb_id = 0
    /\ tb_ret = <<>>
    /\ tb_dump = <<>>
    /\ tb_mutex = "free"
    /\ tb_pc = "idle"
    /\ tb_arg = 0
    /\ tb_retires = 0
    /\ tb_out = "none"

\* Dynamo's eval-frame hook, and one code object whose frames are evaluated.
MaxEvals == 2        \* frames evaluated through the custom eval-frame shim
VARIABLES
    ef_callback,     \* per thread: the thread-local eval-frame callback
    ef_active,       \* active_dynamo_threads
    ef_shim,         \* TRUE when the interpreter's eval function is the shim
    ef_extra,        \* the code object's extra state
    ef_evals,        \* frames evaluated through the shim so far
    ef_pc,           \* per thread: where its innermost _custom_eval_frame
                     \* call is: "idle", "lookup", "callback", "default",
                     \* "custom"
    ef_frame,        \* per thread: the locals of that call
    ef_stack,        \* per thread: the calls that wait for it, the Python
                     \* code each of them runs having evaluated a frame of
                     \* the code object again; innermost first
    ef_last          \* the last _custom_eval_frame call: path, flag, default
efvars == <<ef_callback, ef_active, ef_shim, ef_extra, ef_evals, ef_pc, ef_frame,
            ef_stack, ef_last>>
EfNoEval == [path |-> "none", should_clear_frame |-> FALSE, default |-> FALSE]
EfNoFrame == [callback |-> "None", path |-> "none", stale |-> FALSE]
EfIdle ==
    /\ ef_callback = [t \in Threads |-> "None"]
    /\ ef_active = 0
    /\ ef_shim = FALSE
    /\ ef_extra = "NULL"
    /\ ef_evals = 0
    /\ ef_pc = [t \in Threads |-> "idle"]
    /\ ef_frame = [t \in Threads |-> EfNoFrame]
    /\ ef_stack = [t \in Threads |-> <<>>]
    /\ ef_last = EfNoEval

\* The current XPU device of each thread, once the device pool is initialised.
VARIABLES
    xd_devices,      \* gDevicePool.devices.size()
    xd_cur,          \* per thread: curDeviceIndex
    xd_last          \* the last call: thread, function, argument, outcome,
                     \* value returned, and every thread's device before it
xdvars == <<xd_devices, xd_cur, xd_last>>
XdNoCall ==
    [t |-> NoThread, fn |-> "none", arg |-> 0, out |-> "none", ret |-> 0,
     before |-> [t \in Threads |-> 0]]
XdIdle ==
    /\ xd_devices = 0
    /\ xd_cur = [t \in Threads |-> 0]
    /\ xd_last = XdNoCall

\* caffe2's ThreadPoolImpl.
MaxPoolThreads == 3  \* threads the machine offers and callers ask for
MaxRange == 4        \* the largest range passed to run
MaxRuns == 2         \* calls of ThreadPoolImpl::run made in one behaviour
VARIABLES
    tp_hw,           \* what getDefaultNumThreads() answers on this machine
    tp_default,      \* defaultNumThreads_
    tp_numThreads,   \* numThreads_
    tp_force,        \* FLAGS_caffe2_threadpool_force_inline
    tp_mutex,        \* executionMutex_: 0 when free, else the thread holding it
    tp_pc,           \* per calling thread: "idle", "lock", "body", "execute",
                     \* "withPool"
    tp_local,        \* per calling thread: range and numThreads of its run call
    tp_runs,         \* calls of run made so far
    tp_tasks,        \* tasks_: idx_, start_ and end_ of each task
    tp_calls,        \* per index: invocations of fn in the last run
    tp_last          \* the last run: how it ran, its range, its numThreads
tpvars == <<tp_hw, tp_default, tp_numThreads, tp_force, tp_mutex, tp_pc, tp_local,
            tp_runs, tp_tasks, tp_calls, tp_last>>
TpIndices == 0..(MaxRange + MaxPoolThreads)
TpNoRun == [mode |-> "none", range |-> 0, numThreads |-> 0]
TpNoCall == [range |-> 0, numThreads |-> 0]
TpIdle ==
    /\ tp_hw = 0
    /\ tp_default = 0
    /\ tp_numThreads = 0
    /\ tp_force = FALSE
    /\ tp_mutex = 0
    /\ tp_pc = [t \in Threads |-> "idle"]
    /\ tp_local = [t \in Threads |-> TpNoCall]
    /\ tp_runs = 0
    /\ tp_tasks = <<>>
    /\ tp_calls = [i \in TpIndices |-> 0]
    /\ tp_last = TpNoRun

\* AccumulateGrad::apply_with_saved, the entry compiled autograd uses on the
\* same node and variable.
MaxSavedCalls == 1   \* apply_with_saved calls made in one behaviour
VARIABLES
    aws_pc,          \* position inside apply_with_saved: "idle" between calls,
                     \* "assign", "op", "hook", "in_hook"
    aws_calls,       \* apply_with_saved calls started so far
    aws_grads,       \* the argument list of the call
    aws_copy,        \* grad_copy
    aws_result,      \* how the last call ended
    aws_hookRuns     \* runs of the post-acc-grad hook in apply_with_saved calls
awsvars == <<aws_pc, aws_calls, aws_grads, aws_copy, aws_result, aws_hookRuns>>
AwsIdle ==
    /\ aws_pc = "idle"
    /\ aws_calls = 0
    /\ aws_grads = <<>>
    /\ aws_copy = Undefined
    /\ aws_result = "none"
    /\ aws_hookRuns = 0

vars == <<agvars, lfvars, engvars, genvars, hkvars, xpuvars, accvars, ddvars,
    dispvars, krvars, dwvars, cntvars, ncvars, tbvars, efvars, xdvars, tpvars,
    awsvars>>
\* What each part leaves alone.
notAG == <<lfvars, engvars, genvars, hkvars, xpuvars, accvars, ddvars, dispvars,
    krvars, dwvars, cntvars, ncvars, tbvars, efvars, xdvars, tpvars, awsvars>>
notLF == <<agvars, engvars, genvars, hkvars, xpuvars, accvars, ddvars, dispvars,
    krvars, dwvars, cntvars, ncvars, tbvars, efvars, xdvars, tpvars, awsvars>>
notENG == <<agvars, lfvars, genvars, hkvars, xpuvars, accvars, ddvars, dispvars,
    krvars, dwvars, cntvars, ncvars, tbvars, efvars, xdvars, tpvars, awsvars>>
notGEN == <<agvars, lfvars, engvars, hkvars, xpuvars, accvars, ddvars, dispvars,
    krvars, dwvars, cntvars, ncvars, tbvars, efvars, xdvars, tpvars, awsvars>>
notHK == <<agvars, lfvars, engvars, genvars, xpuvars, accvars, ddvars, dispvars,
    krvars, dwvars, cntvars, ncvars, tbvars, efvars, xdvars, tpvars, awsvars>>
notXPU == <<agvars, lfvars, engvars, genvars, hkvars, accvars, ddvars, dispvars,
    krvars, dwvars, cntvars, ncvars, tbvars, efvars, xdvars, tpvars, awsvars>>
notACC == <<agvars, lfvars, engvars, genvars, hkvars, xpuvars, ddvars, dispvars,
    krvars, dwvars, cntvars, ncvars, tbvars, efvars, xdvars, tpvars, awsvars>>
notDD == <<agvars, lfvars, engvars, genvars, hkvars, xpuvars, accvars, dispvars,
    krvars, dwvars, cntvars, ncvars, tbvars, efvars, xdvars, tpvars, awsvars>>
notDISP == <<agvars, lfvars, engvars, genvars, hkvars, xpuvars, accvars, ddvars,
    krvars, dwvars, cntvars, ncvars, tbvars, efvars, xdvars, tpvars, awsvars>>
notKR == <<agvars, lfvars, engvars, genvars, hkvars, xpuvars, accvars, ddvars,
    dispvars, dwvars, cntvars, ncvars, tbvars, efvars, xdvars, tpvars, awsvars>>
notDW == <<agvars, lfvars, engvars, genvars, hkvars, xpuvars, accvars, ddvars,
    dispvars, krvars, cntvars, ncvars, tbvars, efvars, xdvars, tpvars, awsvars>>
notCNT == <<agvars, lfvars, engvars, genvars, hkvars, xpuvars, accvars, ddvars,
    dispvars, krvars, dwvars, ncvars, tbvars, efvars, xdvars, tpvars, awsvars>>
notNC == <<agvars, lfvars, engvars, genvars, hkvars, xpuvars, accvars, ddvars,
    dispvars, krvars, dwvars, cntvars, tbvars, efvars, xdvars, tpvars, awsvars>>
notTB == <<agvars, lfvars, engvars, genvars, hkvars, xpuvars, accvars, ddvars,
    dispvars, krvars, dwvars, cntvars, ncvars, efvars, xdvars, tpvars, awsvars>>
notEF == <<agvars, lfvars, engvars, genvars, hkvars, xpuvars, accvars, ddvars,
    dispvars, krvars, dwvars, cntvars, ncvars, tbvars, xdvars, tpvars, awsvars>>
notXD == <<agvars, lfvars, engvars, genvars, hkvars, xpuvars, accvars, ddvars,
    dispvars, krvars, dwvars, cntvars, ncvars, tbvars, efvars, tpvars, awsvars>>
notTP == <<agvars, lfvars, engvars, genvars, hkvars, xpuvars, accvars, ddvars,
    dispvars, krvars, dwvars, cntvars, ncvars, tbvars, efvars, xdvars, awsvars>>
notAWS == <<agvars, lfvars, engvars, genvars, hkvars, xpuvars, accvars, ddvars,
    dispvars, krvars, dwvars, cntvars, ncvars, tbvars, efvars, xdvars, tpvars>>
AGIdle ==
    /\ requires_grad = TRUE
    /\ grad_fn = FALSE
    /\ post_hooks = 0
    /\ tensor_post_acc_grad_hooks = FALSE
    /\ initialGrad = Undefined
    /\ grad = Undefined
    /\ mutex_ = NoThread
    /\ ncalls = 0
    /\ pc = [t \in Threads |-> "idle"]
    /\ callId = [t \in Threads |-> 0]
    /\ grads = [t \in Threads |-> <<>>]
    /\ use_count = [t \in Threads |-> 0]
    /\ upd = [t \in Threads |-> Undefined]
    /\ result = [t \in Threads |-> "none"]
    /\ nexp = [t \in Threads |-> 0]
    /\ sawEmpty = [t \in Threads |-> FALSE]
    /\ commits = [t \in Threads |-> 0]
    /\ hookRuns = [t \in Threads |-> 0]
    /\ hookSawUpdate = [t \in Threads |-> FALSE]
    /\ applied = [i \in 1..VarNumel |-> 0]

\* Each part is checked on its own, with the others at rest.
IdleButAG == LfIdle /\ EngIdle /\ GenIdle /\ HkIdle /\ XpuIdle /\ AccIdle /\
    DdIdle /\ DispIdle /\ KrIdle /\ DwIdle /\ CntIdle /\ NcIdle /\ TbIdle /\
    EfIdle /\ XdIdle /\ TpIdle /\ AwsIdle
IdleButLF == AGIdle /\ EngIdle /\ GenIdle /\ HkIdle /\ XpuIdle /\ AccIdle /\
    DdIdle /\ DispIdle /\ KrIdle /\ DwIdle /\ CntIdle /\ NcIdle /\ TbIdle /\
    EfIdle /\ XdIdle /\ TpIdle /\ AwsIdle
IdleButENG == AGIdle /\ LfIdle /\ GenIdle /\ HkIdle /\ XpuIdle /\ AccIdle /\
    DdIdle /\ DispIdle /\ KrIdle /\ DwIdle /\ CntIdle /\ NcIdle /\ TbIdle /\
    EfIdle /\ XdIdle /\ TpIdle /\ AwsIdle
IdleButGEN == AGIdle /\ LfIdle /\ EngIdle /\ HkIdle /\ XpuIdle /\ AccIdle /\
    DdIdle /\ DispIdle /\ KrIdle /\ DwIdle /\ CntIdle /\ NcIdle /\ TbIdle /\
    EfIdle /\ XdIdle /\ TpIdle /\ AwsIdle
IdleButHK == AGIdle /\ LfIdle /\ EngIdle /\ GenIdle /\ XpuIdle /\ AccIdle /\
    DdIdle /\ DispIdle /\ KrIdle /\ DwIdle /\ CntIdle /\ NcIdle /\ TbIdle /\
    EfIdle /\ XdIdle /\ TpIdle /\ AwsIdle
IdleButXPU == AGIdle /\ LfIdle /\ EngIdle /\ GenIdle /\ HkIdle /\ AccIdle /\
    DdIdle /\ DispIdle /\ KrIdle /\ DwIdle /\ CntIdle /\ NcIdle /\ TbIdle /\
    EfIdle /\ XdIdle /\ TpIdle /\ AwsIdle
IdleButACC == AGIdle /\ LfIdle /\ EngIdle /\ GenIdle /\ HkIdle /\ XpuIdle /\
    DdIdle /\ DispIdle /\ KrIdle /\ DwIdle /\ CntIdle /\ NcIdle /\ TbIdle /\
    EfIdle /\ XdIdle /\ TpIdle /\ AwsIdle
IdleButDD == AGIdle /\ LfIdle /\ EngIdle /\ GenIdle /\ HkIdle /\ XpuIdle /\
    AccIdle /\ DispIdle /\ KrIdle /\ DwIdle /\ CntIdle /\ NcIdle /\ TbIdle /\
    EfIdle /\ XdIdle /\ TpIdle /\ AwsIdle
IdleButDISP == AGIdle /\ LfIdle /\ EngIdle /\ GenIdle /\ HkIdle /\ XpuIdle /\
    AccIdle /\ DdIdle /\ KrIdle /\ DwIdle /\ CntIdle /\ NcIdle /\ TbIdle /\
    EfIdle /\ XdIdle /\ TpIdle /\ AwsIdle
IdleButKR == AGIdle /\ LfIdle /\ EngIdle /\ GenIdle /\ HkIdle /\ XpuIdle /\
    AccIdle /\ DdIdle /\ DispIdle /\ DwIdle /\ CntIdle /\ NcIdle /\ TbIdle /\
    EfIdle /\ XdIdle /\ TpIdle /\ AwsIdle
IdleButDW == AGIdle /\ LfIdle /\ EngIdle /\ GenIdle /\ HkIdle /\ XpuIdle /\
    AccIdle /\ DdIdle /\ DispIdle /\ KrIdle /\ CntIdle /\ NcIdle /\ TbIdle /\
    EfIdle /\ XdIdle /\ TpIdle /\ AwsIdle
IdleButCNT == AGIdle /\ LfIdle /\ EngIdle /\ GenIdle /\ HkIdle /\ XpuIdle /\
    AccIdle /\ DdIdle /\ DispIdle /\ KrIdle /\ DwIdle /\ NcIdle /\ TbIdle /\
    EfIdle /\ XdIdle /\ TpIdle /\ AwsIdle
IdleButNC == AGIdle /\ LfIdle /\ EngIdle /\ GenIdle /\ HkIdle /\ XpuIdle /\
    AccIdle /\ DdIdle /\ DispIdle /\ KrIdle /\ DwIdle /\ CntIdle /\ TbIdle /\
    EfIdle /\ XdIdle /\ TpIdle /\ AwsIdle
IdleButTB == AGIdle /\ LfIdle /\ EngIdle /\ GenIdle /\ HkIdle /\ XpuIdle /\
    AccIdle /\ DdIdle /\ DispIdle /\ KrIdle /\ DwIdle /\ CntIdle /\ NcIdle /\
    EfIdle /\ XdIdle /\ TpIdle /\ AwsIdle
IdleButEF == AGIdle /\ LfIdle /\ EngIdle /\ GenIdle /\ HkIdle /\ XpuIdle /\
    AccIdle /\ DdIdle /\ DispIdle /\ KrIdle /\ DwIdle /\ CntIdle /\ NcIdle /\
    TbIdle /\ XdIdle /\ TpIdle /\ AwsIdle
IdleButXD == AGIdle /\ LfIdle /\ EngIdle /\ GenIdle /\ HkIdle /\ XpuIdle /\
    AccIdle /\ DdIdle /\ DispIdle /\ KrIdle /\ DwIdle /\ CntIdle /\ NcIdle /\
    TbIdle /\ EfIdle /\ TpIdle /\ AwsIdle
IdleButTP == AGIdle /\ LfIdle /\ EngIdle /\ GenIdle /\ HkIdle /\ XpuIdle /\
    AccIdle /\ DdIdle /\ DispIdle /\ KrIdle /\ DwIdle /\ CntIdle /\ NcIdle /\
    TbIdle /\ EfIdle /\ XdIdle /\ AwsIdle
IdleButAWS == AGIdle /\ LfIdle /\ EngIdle /\ GenIdle /\ HkIdle /\ XpuIdle /\
    AccIdle /\ DdIdle /\ DispIdle /\ KrIdle /\ DwIdle /\ CntIdle /\ NcIdle /\
    TbIdle /\ EfIdle /\ XdIdle /\ TpIdle

\* ------------------------------------------------------------------ helpers
\* check_input_variables("AccumulateGrad", grads, 1, 0): the list has exactly
\* `args` entries; with required_args = 0 an entry may be undefined.
check_input_variables(gs, args) == Len(gs) = args

\* Variants of the precondition checks: the requires_grad test left out, and
\* the requires_grad test made before the grad_fn test.
PreCheck_NoRequiresGradTest(gs, gf, rg) ==
    IF ~check_input_variables(gs, 1) THEN "value_error"
    ELSE IF ~gs[1].defined THEN "empty_list"
    ELSE IF gf THEN "logic_error"
    ELSE "proceed"
PreCheck_RequiresGradFirst(gs, gf, rg) ==
    IF ~check_input_variables(gs, 1) THEN "value_error"
    ELSE IF ~gs[1].defined THEN "empty_list"
    ELSE IF ~rg THEN "empty_list"
    ELSE IF gf THEN "logic_error"
    ELSE "proceed"

\* Lines 25-33: the checks apply makes before it touches the variable.
PreCheck(gs, gf, rg) ==
    IF ~check_input_variables(gs, 1) THEN "value_error"
    ELSE IF ~gs[1].defined THEN "empty_list"
    ELSE IF gf THEN "logic_error"
    ELSE IF ~rg THEN "empty_list"
    ELSE "proceed"

\* Variant: the post hooks are not counted.
NumExpectedRefs_Always1(ph) == 1

\* Line 57: 1 + !post_hooks().empty()
NumExpectedRefs(ph) == 1 + (IF ph # 0 THEN 1 ELSE 0)

\* Variant: no lock is taken, a thread goes on whoever owns the mutex.
MutexAvailable_NoLock(m) == TRUE

\* Line 43: std::lock_guard<std::mutex> lock(mutex_) returns once the mutex
\* is free.
MutexAvailable(m) == m = NoThread

\* Variant: the lock_guard sits in a block that ends after accumulateGrad.
LockGuardRelease_InnerScope(m, leaving) == NoThread

\* The lock_guard of line 43 lives to the end of apply's body: a thread that
\* owns the mutex gives it up when it leaves apply, and not before.
LockGuardRelease(m, leaving) == IF leaving THEN NoThread ELSE m

\* Variant: the test of line 61 inverted.
HookRegistered_Inverted(h) == ~h

\* Line 61: hook != nullptr
HookRegistered(h) == h

\* Variant: the callback captures grad by value, the assignment is lost.
update_grad_ByValue(g, grad_update) == g

\* Line 58: [&grad](at::Tensor&& grad_update) { grad = std::move(grad_update); }
\* The value of the .grad slot after the callback ran.
update_grad(g, grad_update) == grad_update

\* accumulateGrad(variable, variable_grad, new_grad, num_expected_refs,
\* update_grad): what it hands to update_grad, or that it throws.
accumulateGrad(variable_grad, new_grad, uc, num_expected_refs, fresh) ==
    IF Len(new_grad.val) # VarNumel
    THEN [throws |-> TRUE, update |-> Undefined]
    ELSE IF ~variable_grad.defined
    THEN IF uc > num_expected_refs
         THEN [throws |-> FALSE, update |-> MkTensor(fresh, new_grad.val)]
         ELSE [throws |-> FALSE, update |-> new_grad]
    ELSE [throws |-> FALSE,
          update |-> MkTensor(variable_grad.storage,
                              AddVals(variable_grad.val, new_grad.val))]

\* ------------------------------------------------------------------ inputs
InitialGrads == {Undefined, MkTensor(1, Fill(VarNumel, 1))}
\* What call k is given: the argument list and the use_count of its entry.
\* An undefined entry has no use_count, and a gradient of the wrong shape is
\* rejected before its use_count is read: both are given with use_count 1.
CallInputs(k) ==
    ({<<>>, <<Undefined>>} \times {1})
    \cup ({<<MkTensor(InStorage(k), v)>> : v \in GoodVals} \times (1..MaxUseCount))
    \cup ({<<MkTensor(InStorage(k), v)>> : v \in BadVals} \times {1})

Zero == Fill(VarNumel, 0)

Init ==
    /\ requires_grad \in BOOLEAN
    /\ grad_fn \in BOOLEAN
    /\ post_hooks \in 0..MaxPostHooks
    /\ tensor_post_acc_grad_hooks \in BOOLEAN
    /\ initialGrad \in InitialGrads
    /\ grad = initialGrad
    /\ mutex_ = NoThread
    /\ ncalls = 0
    /\ pc = [t \in Threads |-> "idle"]
    /\ callId = [t \in Threads |-> 0]
    /\ grads = [t \in Threads |-> <<>>]
    /\ use_count = [t \in Threads |-> 0]
    /\ upd = [t \in Threads |-> Undefined]
    /\ result = [t \in Threads |-> "none"]
    /\ nexp = [t \in Threads |-> 0]
    /\ sawEmpty = [t \in Threads |-> FALSE]
    /\ commits = [t \in Threads |-> 0]
    /\ hookRuns = [t \in Threads |-> 0]
    /\ hookSawUpdate = [t \in Threads |-> FALSE]
    /\ applied = Zero
    /\ IdleButAG

\* ------------------------------------------------------------------ actions
\* Lines 24-36: a thread enters apply and runs the precondition checks.
Apply(t, gs, uc) ==
    /\ pc[t] \in {"idle", "done"}
    /\ ncalls < MaxCalls
    /\ ncalls' = ncalls + 1
    /\ grads' = [grads EXCEPT ![t] = gs]
    /\ LET out == PreCheck(gs, grad_fn, requires_grad) IN
         IF out = "proceed"
         THEN /\ pc' = [pc EXCEPT ![t] = "lock"]
              /\ result' = [result EXCEPT ![t] = "none"]
              /\ callId' = [callId EXCEPT ![t] = ncalls + 1]
              /\ use_count' = [use_count EXCEPT ![t] = uc]
         ELSE /\ pc' = [pc EXCEPT ![t] = "done"]
              /\ result' = [result EXCEPT ![t] = out]
              /\ callId' = [callId EXCEPT ![t] = 0]
              /\ use_count' = [use_count EXCEPT ![t] = 0]
    /\ upd' = [upd EXCEPT ![t] = Undefined]
    /\ nexp' = [nexp EXCEPT ![t] = 0]
    /\ sawEmpty' = [sawEmpty EXCEPT ![t] = FALSE]
    /\ commits' = [commits EXCEPT ![t] = 0]
    /\ hookRuns' = [hookRuns EXCEPT ![t] = 0]
    /\ hookSawUpdate' = [hookSawUpdate EXCEPT ![t] = FALSE]
    /\ UNCHANGED <<notAG, leafvars, grad, mutex_, applied>>

\* Line 43: the lock_guard acquires mutex_.
Lock(t) ==
    /\ pc[t] = "lock"
    /\ MutexAvailable(mutex_)
    /\ mutex_' = t
    /\ pc' = [pc EXCEPT ![t] = "accumulate"]
    /\ UNCHANGED <<notAG, leafvars, grad, ncalls, callId, grads, use_count, upd,
                   result, nexp, sawEmpty, commits, hookRuns, hookSawUpdate,
                   applied>>

\* Lines 45-57: accumulateGrad reads .grad and decides between steal, clone
\* and add; an exception unwinds apply and destroys the lock_guard.
Accumulate(t) ==
    /\ pc[t] = "accumulate"
    /\ LET n == NumExpectedRefs(post_hooks)
           r == accumulateGrad(grad, grads[t][1], use_count[t], n,
                               CloneStorage(callId[t]))
       IN IF r.throws
          THEN /\ pc' = [pc EXCEPT ![t] = "done"]
               /\ result' = [result EXCEPT ![t] = "runtime_error"]
               /\ mutex_' = IF mutex_ = t THEN LockGuardRelease(mutex_, TRUE)
                            ELSE mutex_
               /\ callId' = [callId EXCEPT ![t] = 0]
               /\ use_count' = [use_count EXCEPT ![t] = 0]
               /\ UNCHANGED <<nexp, sawEmpty, upd>>
          ELSE /\ pc' = [pc EXCEPT ![t] = "commit"]
               /\ nexp' = [nexp EXCEPT ![t] = n]
               /\ sawEmpty' = [sawEmpty EXCEPT ![t] = ~grad.defined]
               /\ upd' = [upd EXCEPT ![t] = r.update]
               /\ mutex_' = IF mutex_ = t THEN LockGuardRelease(mutex_, FALSE)
                            ELSE mutex_
               /\ UNCHANGED <<result, callId, use_count>>
    /\ UNCHANGED <<notAG, leafvars, grad, ncalls, grads, commits, hookRuns,
                   hookSawUpdate, applied>>

\* Line 58: the commit callback, grad = std::move(grad_update).
Commit(t) ==
    /\ pc[t] = "commit"
    /\ grad' = update_grad(grad, upd[t])
    /\ commits' = [commits EXCEPT ![t] = @ + 1]
    /\ pc' = [pc EXCEPT ![t] = "hook"]
    /\ mutex_' = IF mutex_ = t THEN LockGuardRelease(mutex_, FALSE) ELSE mutex_
    /\ UNCHANGED <<notAG, leafvars, ncalls, callId, grads, use_count, upd, result,
                   nexp, sawEmpty, hookRuns, hookSawUpdate, applied>>

\* Lines 60-62: the hook, if one is registered, is called with the variable.
\* The hook is user code: here it looks at the variable's .grad and leaves
\* it alone.
CallHook(t) ==
    /\ pc[t] = "hook"
    /\ HookRegistered(tensor_post_acc_grad_hooks)
    /\ hookRuns' = [hookRuns EXCEPT ![t] = @ + 1]
    /\ hookSawUpdate' = [hookSawUpdate EXCEPT ![t] = (grad = upd[t])]
    /\ pc' = [pc EXCEPT ![t] = "in_hook"]
    /\ UNCHANGED <<notAG, leafvars, grad, mutex_, ncalls, callId, grads, use_count,
                   upd, result, nexp, sawEmpty, commits, applied>>

\* Line 61, hook == nullptr: nothing to call.
SkipHook(t) ==
    /\ pc[t] = "hook"
    /\ ~HookRegistered(tensor_post_acc_grad_hooks)
    /\ pc' = [pc EXCEPT ![t] = "return"]
    /\ UNCHANGED <<notAG, leafvars, grad, mutex_, ncalls, callId, grads, use_count,
                   upd, result, nexp, sawEmpty, commits, hookRuns,
                   hookSawUpdate, applied>>

\* Line 63: the hook returns to apply.
HookReturn(t) ==
    /\ pc[t] = "in_hook"
    /\ pc' = [pc EXCEPT ![t] = "return"]
    /\ mutex_' = IF mutex_ = t THEN LockGuardRelease(mutex_, FALSE) ELSE mutex_
    /\ UNCHANGED <<notAG, leafvars, grad, ncalls, callId, grads, use_count, upd,
                   result, nexp, sawEmpty, commits, hookRuns, hookSawUpdate,
                   applied>>

\* Lines 65-66: apply returns an empty list; the lock_guard and the locals
\* are destroyed.
Return(t) ==
    /\ pc[t] = "return"
    /\ pc' = [pc EXCEPT ![t] = "done"]
    /\ result' = [result EXCEPT ![t] = "empty_list"]
    /\ mutex_' = IF mutex_ = t THEN LockGuardRelease(mutex_, TRUE) ELSE mutex_
    /\ applied' = AddVals(applied, grads[t][1].val)
    /\ callId' = [callId EXCEPT ![t] = 0]
    /\ use_count' = [use_count EXCEPT ![t] = 0]
    /\ upd' = [upd EXCEPT ![t] = Undefined]
    /\ nexp' = [nexp EXCEPT ![t] = 0]
    /\ sawEmpty' = [sawEmpty EXCEPT ![t] = FALSE]
    /\ UNCHANGED <<notAG, leafvars, grad, ncalls, grads, commits, hookRuns,
                   hookSawUpdate>>

\* ------------------------------------------- apply_with_saved (lines 78-104)
\* What neither apply nor apply_with_saved touches.
notNode == <<lfvars, engvars, genvars, hkvars, xpuvars, accvars, ddvars, dispvars,
    krvars, dwvars, cntvars, ncvars, tbvars, efvars, xdvars, tpvars>>

\* The gradients apply_with_saved is called with: one entry, undefined or an
\* all-ones tensor of the variable's shape.
SavedStorage(k) == InStorage(MaxCalls + k)
SavedInputs(k) == {<<Undefined>>, <<MkTensor(SavedStorage(k), Fill(VarNumel, 1))>>}

\* Lines 81-85: the early return and the internal assert.
SavedPreCheck(gs, gf, rg) ==
    IF ~rg \/ ~gs[1].defined THEN "empty_list"
    ELSE IF gf \/ Len(gs) # 1 THEN "internal_assert"
    ELSE "proceed"

\* inductor::accumulate_grad_(variable, new_grad): the variable's .grad
\* becomes new_grad when it was undefined and their sum otherwise.
accumulate_grad_(variable_grad, new_grad) ==
    IF ~variable_grad.defined
    THEN new_grad
    ELSE MkTensor(variable_grad.storage, AddVals(variable_grad.val, new_grad.val))

\* Lines 78-87: the checks, then grad_copy = variable.grad().  No lock is
\* taken anywhere in apply_with_saved.
apply_with_saved(gs) ==
    /\ aws_pc = "idle"
    /\ aws_calls < MaxSavedCalls
    /\ aws_calls' = aws_calls + 1
    /\ aws_grads' = gs
    /\ LET out == SavedPreCheck(gs, grad_fn, requires_grad) IN
         IF out = "proceed"
         THEN /\ aws_pc' = "assign"
              /\ aws_copy' = grad
              /\ aws_result' = "none"
         ELSE /\ aws_pc' = "idle"
              /\ aws_copy' = Undefined
              /\ aws_result' = out
    /\ UNCHANGED <<notNode, agvars, aws_hookRuns>>

\* Line 90: variable_copy.mutable_grad() = grad_copy
AwsAssign ==
    /\ aws_pc = "assign"
    /\ grad' = aws_copy
    /\ aws_pc' = "op"
    /\ UNCHANGED <<notNode, leafvars, mutex_, ncalls, pc, callId, grads, use_count,
                   upd, result, nexp, sawEmpty, commits, hookRuns, hookSawUpdate,
                   applied, aws_calls, aws_grads, aws_copy, aws_result,
                   aws_hookRuns>>

\* Lines 92-95: op.call(variable_copy, grads[0])
AwsOp ==
    /\ aws_pc = "op"
    /\ grad' = accumulate_grad_(grad, aws_grads[1])
    /\ aws_pc' = "hook"
    /\ UNCHANGED <<notNode, leafvars, mutex_, ncalls, pc, callId, grads, use_count,
                   upd, result, nexp, sawEmpty, commits, hookRuns, hookSawUpdate,
                   applied, aws_calls, aws_grads, aws_copy, aws_result,
                   aws_hookRuns>>

\* Lines 96-98: a registered hook is called with variable_copy.  The hook is
\* user code: apply_with_saved waits for it, and holds no lock meanwhile.
AwsCallHook ==
    /\ aws_pc = "hook"
    /\ HookRegistered(tensor_post_acc_grad_hooks)
    /\ aws_hookRuns' = aws_hookRuns + 1
    /\ aws_pc' = "in_hook"
    /\ UNCHANGED <<notNode, agvars, aws_calls, aws_grads, aws_copy, aws_result>>

\* Lines 100-103: the hook has returned, or none is registered (line 97);
\* saved.after and the return.
AwsReturn ==
    /\ \/ aws_pc = "in_hook"
       \/ aws_pc = "hook" /\ ~HookRegistered(tensor_post_acc_grad_hooks)
    /\ aws_pc' = "idle"
    /\ aws_result' = "empty_list"
    /\ aws_copy' = Undefined
    /\ UNCHANGED <<notNode, agvars, aws_calls, aws_grads, aws_hookRuns>>

Next ==
    \/ \E t \in Threads : \E in \in CallInputs(ncalls + 1) :
          Apply(t, in[1], in[2])
    \/ \E t \in Threads : Lock(t)
    \/ \E t \in Threads : Accumulate(t)
    \/ \E t \in Threads : Commit(t)
    \/ \E t \in Threads : CallHook(t)
    \/ \E t \in Threads : SkipHook(t)
    \/ \E t \in Threads : HookReturn(t)
    \/ \E t \in Threads : Return(t)
    \/ \E gs \in SavedInputs(aws_calls + 1) : apply_with_saved(gs)
    \/ AwsAssign
    \/ AwsOp
    \/ AwsCallHook
    \/ AwsReturn

Spec == Init /\ [][Next]_vars

\* ------------------------------------------------------------------ claims
\* The argument of thread t's call is a defined tensor.
DefinedArg(t) == Len(grads[t]) = 1 /\ grads[t][1].defined
\* Thread t's call passes the precondition checks of lines 25-33.
PassedChecks(t) == DefinedArg(t) /\ ~grad_fn /\ requires_grad
\* Thread t's call was given a defined all-ones gradient.
AllOnesArg(t) == DefinedArg(t) /\ grads[t][1].val = Fill(VarNumel, 1)
\* Positions of apply at which the calling thread is inside the lock_guard's
\* scope, and those between acquiring the mutex and the commit.
InLockScope == {"accumulate", "commit", "hook", "in_hook", "return"}
BeforeCommit == {"accumulate", "commit"}
AfterCommit == {"hook", "in_hook", "return"}
\* No thread is inside the lock_guard's scope.
Quiescent == \A t \in Threads : pc[t] \notin InLockScope
\* Only apply has been called on the node: apply_with_saved, which writes
\* .grad without the mutex, has not.
OnlyApply == aws_calls = 0

\* C1: when NumThreads threads have each called apply once on the same leaf
\* (requires_grad, no grad_fn, .grad empty at the start) with a defined
\* all-ones gradient and all the calls have returned, every element of .grad
\* equals NumThreads.
C1_NoLostUpdate ==
    ( /\ ~initialGrad.defined
      /\ OnlyApply
      /\ ncalls = NumThreads
      /\ \A t \in Threads :
            pc[t] = "done" /\ result[t] = "empty_list" /\ PassedChecks(t)
            /\ AllOnesArg(t) )
    => (grad.defined /\ grad.val = Fill(VarNumel, NumThreads))

C1_Witness ==
    /\ ~initialGrad.defined
    /\ OnlyApply
    /\ ncalls = NumThreads
    /\ \A t \in Threads :
          pc[t] = "done" /\ result[t] = "empty_list" /\ PassedChecks(t)
          /\ AllOnesArg(t)
    /\ tensor_post_acc_grad_hooks

\* C2: a thread that is between acquiring the mutex and committing to .grad
\* owns mutex_, so at most one thread is there at a time; .grad is read (at
\* "accumulate") and written (at "commit") only at these positions.
C2_MutualExclusion ==
    /\ \A t \in Threads : pc[t] \in BeforeCommit => mutex_ = t
    /\ Cardinality({t \in Threads : pc[t] \in BeforeCommit}) <= 1

C2_Witness ==
    \E t, u \in Threads : pc[t] = "commit" /\ pc[u] = "lock" /\ mutex_ = t

\* C3 as stated: while the post-accumulation hook of a thread's call runs,
\* that thread does not hold the leaf's mutex.
C3_HookOutsideLock ==
    \A t \in Threads : pc[t] = "in_hook" => mutex_ # t

\* C3, amended: while the post-accumulation hook of a thread's call runs,
\* that thread still holds the leaf's mutex, and no other thread is inside
\* its critical section on the same leaf.
C3_HookUnderLock ==
    \A t \in Threads :
        pc[t] = "in_hook" =>
            /\ mutex_ = t
            /\ \A u \in Threads \ {t} : pc[u] \notin InLockScope

C3_Witness ==
    \E t, u \in Threads : pc[t] = "in_hook" /\ pc[u] = "lock"

\* C4: a call that commits a gradient to a leaf with a registered hook has
\* run the hook exactly once when it returns, the hook ran after the commit
\* and saw the updated .grad; before the commit, and in a call that returned
\* early or threw, the hook has not run.
C4_HookOnceAfterCommit ==
    \A t \in Threads :
        /\ pc[t] \in {"lock", "accumulate", "commit", "hook"} => hookRuns[t] = 0
        /\ pc[t] = "in_hook" =>
              commits[t] = 1 /\ hookRuns[t] = 1
              /\ (OnlyApply => hookSawUpdate[t])
        /\ (pc[t] = "return" \/ (pc[t] = "done" /\ commits[t] > 0)) =>
              IF tensor_post_acc_grad_hooks
              THEN hookRuns[t] = 1 /\ (OnlyApply => hookSawUpdate[t])
              ELSE hookRuns[t] = 0
        /\ (pc[t] = "done" /\ commits[t] = 0) => hookRuns[t] = 0

C4_Witness ==
    OnlyApply /\ \E t \in Threads :
        /\ pc[t] = "done" /\ result[t] = "empty_list" /\ commits[t] = 1
        /\ tensor_post_acc_grad_hooks /\ hookRuns[t] = 1 /\ hookSawUpdate[t]
        /\ \E u \in Threads : pc[u] = "done" /\ result[u] = "runtime_error"

\* Thread t's call has an undefined gradient slot, or is on a leaf (no
\* grad_fn) that does not require grad.
NoOpCall(t) ==
    /\ Len(grads[t]) = 1
    /\ ~grads[t][1].defined \/ (~requires_grad /\ ~grad_fn)

\* C5: a call with an undefined gradient slot, or on a leaf whose
\* requires_grad is false, returns an empty list without an error, never
\* enters the body of apply and never runs the commit callback; and every
\* step that changes .grad is the commit of a call that is not such a call,
\* so the call leaves .grad as it was.
C5_NoOpLeavesGrad ==
    /\ [](\A t \in Threads :
            NoOpCall(t) =>
                /\ pc[t] = "done"
                /\ result[t] = "empty_list"
                /\ commits[t] = 0 /\ hookRuns[t] = 0)
    /\ [][grad' # grad =>
            \/ \E t \in Threads : pc[t] = "commit" /\ ~NoOpCall(t)
            \/ aws_pc \in {"assign", "op"}]_vars

C5_Witness ==
    \E t, u \in Threads :
        /\ pc[t] = "done" /\ DefinedArg(t) /\ ~requires_grad /\ ~grad_fn
        /\ result[t] = "empty_list" /\ grad.defined /\ grad = initialGrad
        /\ pc[u] = "done" /\ grads[u] = <<Undefined>>
        /\ result[u] = "empty_list"

\* C6: a call with a defined gradient on a variable that has a grad_fn ends
\* in a logic_error whatever requires_grad is, without running the commit
\* callback; .grad keeps the value it had.
C6_GradFnThrows ==
    /\ \A t \in Threads :
          (DefinedArg(t) /\ grad_fn) =>
              /\ pc[t] = "done"
              /\ result[t] = "logic_error"
              /\ commits[t] = 0
    /\ grad_fn => grad = initialGrad

C6_Witness ==
    \E t \in Threads :
        /\ pc[t] = "done" /\ DefinedArg(t) /\ grad_fn /\ ~requires_grad
        /\ result[t] = "logic_error" /\ initialGrad.defined

\* Storages of the tensors that exist besides a clone made by thread t.
OtherStorages(t) ==
    {initialGrad.storage}
    \cup {grads[u][1].storage : u \in {v \in Threads : Len(grads[v]) = 1}}

\* C7: after the commit of a call that found .grad empty, .grad has the
\* values of the call's gradient g; it is g's own storage when g's use_count
\* does not exceed num_expected_refs, and a new storage when it does.
C7_FirstWrite ==
    \A t \in Threads :
        (OnlyApply /\ pc[t] \in AfterCommit /\ sawEmpty[t]) =>
            /\ grad.defined
            /\ grad.val = grads[t][1].val
            /\ use_count[t] <= nexp[t] => grad.storage = grads[t][1].storage
            /\ use_count[t] > nexp[t] => grad.storage \notin OtherStorages(t)

C7_Witness ==
    OnlyApply /\ \E t \in Threads :
        /\ pc[t] \in AfterCommit /\ sawEmpty[t]
        /\ use_count[t] = 2 /\ nexp[t] = 2
        /\ grad.storage = grads[t][1].storage
        /\ grad.val = Ramp(VarNumel)

\* C8 as stated: num_expected_refs is 2 exactly when the post-accumulation
\* hook that apply invokes is registered, and 1 otherwise.
C8_ThresholdFromAccHook ==
    \A t \in Threads :
        pc[t] \in {"commit"} \cup AfterCommit =>
            nexp[t] = IF tensor_post_acc_grad_hooks THEN 2 ELSE 1

\* C8, amended: num_expected_refs is 2 exactly when the node's list of
\* function post hooks (post_hooks()) is not empty, and 1 otherwise, whether
\* or not a post-accumulation hook is registered.
C8_ThresholdFromPostHooks ==
    \A t \in Threads :
        pc[t] \in {"commit"} \cup AfterCommit =>
            nexp[t] = IF post_hooks > 0 THEN 2 ELSE 1

C8_Witness ==
    \E t \in Threads :
        /\ pc[t] = "in_hook" /\ tensor_post_acc_grad_hooks /\ post_hooks = 0
        /\ nexp[t] = 1 /\ sawEmpty[t] /\ use_count[t] = 2

\* C9: whenever no thread is inside the lock_guard's scope, .grad is what it
\* was at the start plus the elementwise sum of the gradients of the calls
\* that have returned normally, in whatever order they ran (and still what
\* it was at the start when there is no such call).
C9_SumOfGradients ==
    (Quiescent /\ OnlyApply) =>
        IF applied = Zero
        THEN grad = initialGrad
        ELSE /\ grad.defined
             /\ grad.val = IF initialGrad.defined
                           THEN AddVals(initialGrad.val, applied)
                           ELSE applied

C9_Witness ==
    /\ Quiescent
    /\ OnlyApply
    /\ initialGrad.defined
    /\ \E t, u \in Threads :
          /\ t # u
          /\ pc[t] = "done" /\ result[t] = "empty_list" /\ PassedChecks(t)
          /\ pc[u] = "done" /\ result[u] = "empty_list" /\ PassedChecks(u)
          /\ grads[t][1].val = Ramp(VarNumel)
          /\ grads[u][1].val = Fill(VarNumel, 1)
          /\ grad.val = AddVals(initialGrad.val,
                                AddVals(Ramp(VarNumel), Fill(VarNumel, 1)))

\* C10: in a call that passes the precondition checks the commit callback
\* runs once: it has not run before the call holds the mutex and has the
\* update that accumulateGrad decided on, it runs with the mutex held, and
\* it has run exactly once from then on until the call returns; in a call
\* that returned early or threw it has not run.
C10_CommitOnceUnderLock ==
    \A t \in Threads :
        /\ pc[t] \in {"lock", "accumulate"} => commits[t] = 0
        /\ pc[t] = "commit" =>
              commits[t] = 0 /\ mutex_ = t /\ upd[t].defined
        /\ pc[t] \in AfterCommit => commits[t] = 1 /\ mutex_ = t
        /\ pc[t] = "done" =>
              commits[t] = IF PassedChecks(t) /\ result[t] = "empty_list"
                           THEN 1 ELSE 0

C10_Witness ==
    \E t, u \in Threads :
        /\ pc[t] = "done" /\ PassedChecks(t) /\ result[t] = "empty_list"
        /\ commits[t] = 1
        /\ pc[u] = "done" /\ PassedChecks(u) /\ result[u] = "runtime_error"
        /\ commits[u] = 0


\* ===================================================== AccumulateGrad, several
\* leaves.  Every AccumulateGrad node has its own mutex_ (a member of Node), and
\* apply locks only that one.
MutexOfNode_Global(n) == 1
MutexOfNode(n) == n

\* Leaving apply by return or by exception runs the lock_guard's destructor; a
\* guard that never unlocks is the variant the liveness claim must exclude.
LfRelease_Never(m, leaving) == m
LfRelease(m, leaving) == LockGuardRelease(m, leaving)

LfActive == {"lock", "critical", "hook", "in_hook", "return", "stuck"}
LfInScope == {"critical", "hook", "in_hook", "return", "stuck"}

LfInit ==
    /\ lf_mutex = [n \in Leaves |-> NoThread]
    /\ lf_pc = [t \in Threads |-> "idle"]
    /\ lf_leaf = [t \in Threads |-> 1]
    /\ lf_hook \in [Leaves -> BOOLEAN]
    /\ lf_reenter \in BOOLEAN
    /\ lf_result = [t \in Threads |-> "none"]
    /\ IdleButLF

\* A thread of the engine calls apply on the node of leaf n with a defined
\* gradient; the checks pass and it reaches the lock_guard.
LfApply(t, n) ==
    /\ lf_pc[t] = "idle"
    /\ lf_pc' = [lf_pc EXCEPT ![t] = "lock"]
    /\ lf_leaf' = [lf_leaf EXCEPT ![t] = n]
    /\ lf_result' = [lf_result EXCEPT ![t] = "none"]
    /\ UNCHANGED <<notLF, lf_mutex, lf_hook, lf_reenter>>

\* std::lock_guard<std::mutex> lock(mutex_): blocks while the node's mutex is
\* owned; there is no timeout.
LfLock(t) ==
    /\ lf_pc[t] = "lock"
    /\ MutexAvailable(lf_mutex[MutexOfNode(lf_leaf[t])])
    /\ lf_mutex' = [lf_mutex EXCEPT ![MutexOfNode(lf_leaf[t])] = t]
    /\ lf_pc' = [lf_pc EXCEPT ![t] = "critical"]
    /\ UNCHANGED <<notLF, lf_leaf, lf_hook, lf_reenter, lf_result>>

\* accumulateGrad(...) with its commit lambda.
LfAccumulate(t) ==
    /\ lf_pc[t] = "critical"
    /\ lf_pc' = [lf_pc EXCEPT ![t] = "hook"]
    /\ UNCHANGED <<notLF, lf_mutex, lf_leaf, lf_hook, lf_reenter, lf_result>>

\* if (auto* hook = tensor_post_acc_grad_hooks()) (*hook)(variable);
LfCallHook(t) ==
    /\ lf_pc[t] = "hook"
    /\ HookRegistered(lf_hook[lf_leaf[t]])
    /\ lf_pc' = [lf_pc EXCEPT ![t] = "in_hook"]
    /\ UNCHANGED <<notLF, lf_mutex, lf_leaf, lf_hook, lf_reenter, lf_result>>

LfSkipHook(t) ==
    /\ lf_pc[t] = "hook"
    /\ ~HookRegistered(lf_hook[lf_leaf[t]])
    /\ lf_pc' = [lf_pc EXCEPT ![t] = "return"]
    /\ UNCHANGED <<notLF, lf_mutex, lf_leaf, lf_hook, lf_reenter, lf_result>>

\* A hook that does not call back into apply on its own leaf terminates.
LfHookReturn(t) ==
    /\ lf_pc[t] = "in_hook"
    /\ ~lf_reenter
    /\ lf_pc' = [lf_pc EXCEPT ![t] = "return"]
    /\ UNCHANGED <<notLF, lf_mutex, lf_leaf, lf_hook, lf_reenter, lf_result>>

\* A hook that calls apply on its own leaf locks a std::mutex its thread
\* already owns, which is undefined: the thread blocks on itself for ever ...
LfReenterDeadlock(t) ==
    /\ lf_pc[t] = "in_hook"
    /\ lf_reenter
    /\ lf_pc' = [lf_pc EXCEPT ![t] = "stuck"]
    /\ UNCHANGED <<notLF, lf_mutex, lf_leaf, lf_hook, lf_reenter, lf_result>>

\* ... or the lock throws std::system_error, which unwinds the hook and the
\* outer apply, whose lock_guard unlocks.
LfReenterError(t) ==
    /\ lf_pc[t] = "in_hook"
    /\ lf_reenter
    /\ lf_mutex' = [lf_mutex EXCEPT ![MutexOfNode(lf_leaf[t])] = LfRelease(@, TRUE)]
    /\ lf_pc' = [lf_pc EXCEPT ![t] = "idle"]
    /\ lf_result' = [lf_result EXCEPT ![t] = "system_error"]
    /\ UNCHANGED <<notLF, lf_leaf, lf_hook, lf_reenter>>

\* return variable_list(); the lock_guard's destructor unlocks the mutex.
LfReturn(t) ==
    /\ lf_pc[t] = "return"
    /\ lf_mutex' = [lf_mutex EXCEPT ![MutexOfNode(lf_leaf[t])] = LfRelease(@, TRUE)]
    /\ lf_pc' = [lf_pc EXCEPT ![t] = "idle"]
    /\ lf_result' = [lf_result EXCEPT ![t] = "empty_list"]
    /\ UNCHANGED <<notLF, lf_leaf, lf_hook, lf_reenter>>

LfNext ==
    \/ \E t \in Threads, n \in Leaves : LfApply(t, n)
    \/ \E t \in Threads : LfLock(t)
    \/ \E t \in Threads : LfAccumulate(t)
    \/ \E t \in Threads : LfCallHook(t)
    \/ \E t \in Threads : LfSkipHook(t)
    \/ \E t \in Threads : LfHookReturn(t)
    \/ \E t \in Threads : LfReenterDeadlock(t)
    \/ \E t \in Threads : LfReenterError(t)
    \/ \E t \in Threads : LfReturn(t)

LeafSpec == LfInit /\ [][LfNext]_vars

\* Fair scheduling: a thread that can take a step for good takes it, so a
\* thread inside apply keeps running and a thread blocked on a mutex that stays
\* free gets it.  std::mutex promises no order among the threads that lock it:
\* a mutex that is released and locked again by others may pass a waiter by.
\* Nothing forces a thread to start a call.
LfFairness ==
    \A t \in Threads :
        /\ WF_vars(LfLock(t))
        /\ WF_vars(LfAccumulate(t))
        /\ WF_vars(LfCallHook(t))
        /\ WF_vars(LfSkipHook(t))
        /\ WF_vars(LfHookReturn(t))
        /\ WF_vars(LfReenterDeadlock(t) \/ LfReenterError(t))
        /\ WF_vars(LfReturn(t))

LeafFairSpec == LfInit /\ [][LfNext]_vars /\ LfFairness

\* C11: apply on different leaves shares no lock.  A mutex is only ever owned by
\* a thread that is inside apply on that very leaf, so a thread that reaches the
\* lock of leaf B while no other thread is in apply on B finds the mutex free,
\* whatever other threads are doing (waiting, in the critical section, in a
\* hook, or blocked for ever) on other leaves.
C11_NoSharedLock ==
    /\ \A n \in Leaves :
        lf_mutex[n] # NoThread =>
            /\ lf_pc[lf_mutex[n]] \in LfInScope
            /\ lf_leaf[lf_mutex[n]] = n
    /\ \A t \in Threads :
        (/\ lf_pc[t] = "lock"
         /\ \A u \in Threads \ {t} :
                lf_pc[u] \in LfActive => lf_leaf[u] # lf_leaf[t])
        => MutexAvailable(lf_mutex[MutexOfNode(lf_leaf[t])])

\* Two threads are inside the critical sections of two different leaves at once,
\* one of them in its hook.
C11_Witness ==
    \E t, u \in Threads :
        /\ lf_leaf[t] # lf_leaf[u]
        /\ lf_pc[u] \in {"in_hook", "stuck"}
        /\ lf_pc[t] = "critical"
        /\ lf_mutex[lf_leaf[t]] = t
        /\ lf_mutex[lf_leaf[u]] = u

\* C12, as amended: when the hooks terminate and do not call apply on their own
\* leaf again, under fair scheduling every call of apply that has acquired the
\* leaf's mutex returns, and while a thread waits for a leaf's mutex some
\* thread acquires that mutex: the wait ends unless other threads lock the
\* mutex again and again for ever.
C12_LockNeverStuck ==
    \A t \in Threads :
        /\ (lf_pc[t] \in LfInScope /\ ~lf_reenter)
               ~> (lf_pc[t] = "idle" /\ lf_result[t] = "empty_list")
        /\ (lf_pc[t] = "lock" /\ ~lf_reenter)
               ~> (\E u \in Threads :
                      /\ lf_pc[u] = "critical"
                      /\ lf_leaf[u] = lf_leaf[t]
                      /\ lf_mutex[MutexOfNode(lf_leaf[t])] = u)

\* C12, as stated: when the hooks terminate and do not call apply on their own
\* leaf again, under fair scheduling every thread waiting for a leaf's mutex
\* gets it and every call of apply returns.
C12_ApplyReturns ==
    \A t \in Threads :
        /\ (lf_pc[t] = "lock" /\ ~lf_reenter) ~> (lf_pc[t] = "critical")
        /\ (lf_pc[t] \in LfActive /\ ~lf_reenter)
               ~> (lf_pc[t] = "idle" /\ lf_result[t] = "empty_list")

\* A thread waits for the mutex of a leaf whose hook another thread is running.
C12_Witness ==
    \E t, u \in Threads :
        /\ ~lf_reenter
        /\ t # u
        /\ lf_leaf[t] = lf_leaf[u]
        /\ lf_pc[t] = "lock"
        /\ lf_pc[u] = "in_hook"
        /\ lf_mutex[lf_leaf[t]] = u


\* ====================================================== the engine's ready queue
\* A sequence_nr is a uint64_t; it is written here as four 16-bit limbs, most
\* significant first.
LimbMax == 65535
UINT64_MAX == <<LimbMax, LimbMax, LimbMax, LimbMax>>
SeqOf(k) == <<0, 0, (k \div (LimbMax + 1)) % (LimbMax + 1), k % (LimbMax + 1)>>

\* AccumulateGrad::AccumulateGrad: Node(/*sequence_nr=*/UINT64_MAX).
AccumulateGradSeqNr == UINT64_MAX

EngInit ==
    /\ eng_kind = [i \in NodeIds |-> "none"]
    /\ eng_seq = [i \in NodeIds |-> SeqOf(0)]
    /\ eng_counter = 0
    /\ eng_ready = {}
    /\ eng_ran = {}
    /\ eng_popped = 0
    /\ eng_seen = {}
    /\ IdleButENG

\* The forward pass constructs the AccumulateGrad node of a leaf.
EngNewAccumulateGrad(i) ==
    /\ eng_kind[i] = "none"
    /\ eng_kind' = [eng_kind EXCEPT ![i] = "AccumulateGrad"]
    /\ eng_seq' = [eng_seq EXCEPT ![i] = AccumulateGradSeqNr]
    /\ UNCHANGED <<notENG, eng_counter, eng_ready, eng_ran, eng_popped, eng_seen>>

\* The forward pass constructs the backward node of an operation; it takes the
\* next sequence number of the running counter.
EngNewOther(i) ==
    /\ eng_kind[i] = "none"
    /\ eng_kind' = [eng_kind EXCEPT ![i] = "Other"]
    /\ eng_seq' = [eng_seq EXCEPT ![i] = SeqOf(eng_counter)]
    /\ eng_counter' = eng_counter + 1
    /\ UNCHANGED <<notENG, eng_ready, eng_ran, eng_popped, eng_seen>>

\* All the inputs of a node have arrived: it enters the ready queue.
EngPush(i) ==
    /\ eng_kind[i] # "none"
    /\ i \notin eng_ready
    /\ i \notin eng_ran
    /\ eng_ready' = eng_ready \cup {i}
    /\ UNCHANGED <<notENG, eng_kind, eng_seq, eng_counter, eng_ran, eng_popped, eng_seen>>

\* A worker takes a ready node and runs it.  Which of the ready nodes the queue
\* hands out is decided by the comparator of the engine's ReadyQueue
\* (engine.cpp), which accumulate_grad.cpp does not contain: any ready node may
\* be the one taken.
EngPop(i) ==
    /\ i \in eng_ready
    /\ eng_ready' = eng_ready \ {i}
    /\ eng_ran' = eng_ran \cup {i}
    /\ eng_popped' = i
    /\ eng_seen' = eng_ready
    /\ UNCHANGED <<notENG, eng_kind, eng_seq, eng_counter>>

EngNext ==
    \/ \E i \in NodeIds : EngNewAccumulateGrad(i)
    \/ \E i \in NodeIds : EngNewOther(i)
    \/ \E i \in NodeIds : EngPush(i)
    \/ \E i \in NodeIds : EngPop(i)

EngineSpec == EngInit /\ [][EngNext]_vars

\* Every AccumulateGrad node carries the largest sequence_nr.
EngAllMax ==
    \A i \in NodeIds : eng_kind[i] = "AccumulateGrad" => eng_seq[i] = UINT64_MAX


\* ============================================ PrivateUse1 generator registration
\* REGISTER_GENERATOR_PRIVATEUSE1(f) declares a function-local static registrar
\* built from f.  register_generator_first and register_generator_second each
\* expand the macro, so each has a static of its own.
StaticOf_Shared(fn) == "register_generator_first"
StaticOf(fn) == fn

\* The registrar's constructor checks that no factory is registered yet.
RegistrarThrows(slot) == slot # "none"
SlotAfterRegister_Overwrite(slot, fn) == fn
SlotAfterRegister(slot, fn) == IF slot = "none" THEN fn ELSE slot

\* The outcome of calling a registration function: a static that is already
\* initialised is not constructed again; a constructor that throws leaves the
\* static uninitialised.
RegisterOutcome(slot, statics, fn) ==
    IF StaticOf(fn) \in statics THEN "noop"
    ELSE IF RegistrarThrows(slot) THEN "error"
    ELSE "ok"

GenInit ==
    /\ gen_slot = "none"
    /\ gen_static = {}
    /\ gen_log = <<>>
    /\ IdleButGEN

RegisterGenerator(fn) ==
    /\ Len(gen_log) < MaxGenCalls
    /\ LET out == RegisterOutcome(gen_slot, gen_static, fn) IN
        /\ gen_log' = Append(gen_log, [op |-> fn, out |-> out])
        /\ gen_slot' = IF out = "noop" THEN gen_slot
                       ELSE SlotAfterRegister(gen_slot, fn)
        /\ gen_static' = IF out = "ok" THEN gen_static \cup {StaticOf(fn)}
                         ELSE gen_static
    /\ UNCHANGED notGEN

register_generator_first == RegisterGenerator("register_generator_first")

register_generator_second == RegisterGenerator("register_generator_second")

\* A lookup of the registered factory, as a generator for the device is made.
GenLookup ==
    /\ Len(gen_log) < MaxGenCalls
    /\ gen_log' = Append(gen_log, [op |-> "lookup", out |-> gen_slot])
    /\ UNCHANGED <<notGEN, gen_slot, gen_static>>

GenNext ==
    \/ register_generator_first
    \/ register_generator_second
    \/ GenLookup

GeneratorSpec == GenInit /\ [][GenNext]_vars

GenRegisterOps == {"register_generator_first", "register_generator_second"}
\* The calls before call i that registered a factory.
GenOkBefore(i) == {j \in 1..(i - 1) : gen_log[j].out = "ok"}
GenFirstOk == {j \in 1..Len(gen_log) : gen_log[j].out = "ok" /\ GenOkBefore(j) = {}}

\* C14: a registration made while no factory is registered succeeds; once one
\* function has registered, every call of the other registration function fails
\* with an error, and every lookup, before and after such a failure, yields the
\* factory registered first.
C14_RegisterOnce ==
    /\ \A i \in 1..Len(gen_log) :
        /\ (gen_log[i].op \in GenRegisterOps /\ GenOkBefore(i) = {})
               => gen_log[i].out = "ok"
        /\ (/\ gen_log[i].op \in GenRegisterOps
            /\ \E j \in GenOkBefore(i) : gen_log[j].op # gen_log[i].op)
               => gen_log[i].out = "error"
        /\ gen_log[i].op = "lookup" =>
               /\ GenOkBefore(i) = {} => gen_log[i].out = "none"
               /\ \A j \in GenOkBefore(i) :
                      GenOkBefore(j) = {} => gen_log[i].out = gen_log[j].op
    /\ Cardinality(GenFirstOk) <= 1
    /\ \A j \in GenFirstOk : gen_slot = gen_log[j].op
    /\ GenFirstOk = {} => gen_slot = "none"

\* register_generator_first succeeded, register_generator_second then failed,
\* and a lookup after the failure still found the first registration.
C14_Witness ==
    /\ Len(gen_log) >= 3
    /\ gen_log[1] = [op |-> "register_generator_first", out |-> "ok"]
    /\ gen_log[2] = [op |-> "register_generator_second", out |-> "error"]
    /\ gen_log[3] = [op |-> "lookup", out |-> "register_generator_first"]


\* ================================================== the PrivateUse1 hooks object
\* c10::call_once(once, f): the caller that finds the flag unset runs f; a
\* caller that finds f running waits; a caller that finds the flag set goes on.
HkOnceMayRun_Racy(flag) == flag # "set"
HkOnceMayRun(flag) == flag = "unset"
HkOnceMayPass(flag) == flag = "set"

\* if (!privateuse1_hooks_local)
HkNeedsDefault_Always(p) == TRUE
HkNeedsDefault(p) == p = Null

HkFunctions == {"get_private_hooks", "register_hook"}

HkInit ==
    /\ hk_registered \in BOOLEAN
    /\ hk_once = "unset"
    /\ hk_local = Null
    /\ hk_created = 0
    /\ hk_pc = [t \in Threads |-> "idle"]
    /\ hk_fn = [t \in Threads |-> "none"]
    /\ hk_ret = [t \in Threads |-> NoRet]
    /\ IdleButHK

\* A thread calls get_private_hooks, directly or from register_hook.
HkCall(t, fn) ==
    /\ hk_pc[t] = "idle"
    /\ hk_pc' = [hk_pc EXCEPT ![t] = "call_once"]
    /\ hk_fn' = [hk_fn EXCEPT ![t] = fn]
    /\ UNCHANGED <<notHK, hk_registered, hk_once, hk_local, hk_created, hk_ret>>

\* call_once finds the flag unset: this thread runs the lambda.
HkEnter(t) ==
    /\ hk_pc[t] = "call_once"
    /\ HkOnceMayRun(hk_once)
    /\ hk_once' = "running"
    /\ hk_pc' = [hk_pc EXCEPT ![t] = "create"]
    /\ UNCHANGED <<notHK, hk_registered, hk_local, hk_created, hk_fn, hk_ret>>

\* call_once finds the flag set: the lambda is not run.
HkPass(t) ==
    /\ hk_pc[t] = "call_once"
    /\ HkOnceMayPass(hk_once)
    /\ hk_pc' = [hk_pc EXCEPT ![t] = "ret"]
    /\ UNCHANGED <<notHK, hk_registered, hk_once, hk_local, hk_created, hk_fn, hk_ret>>

\* privateuse1_hooks_local = PrivateUse1HooksRegistry()->Create("FooHooks", {}).release();
HkCreate(t) ==
    /\ hk_pc[t] = "create"
    /\ IF hk_registered
       THEN /\ hk_local' = [kind |-> "FooHooks", id |-> hk_created + 1]
            /\ hk_created' = hk_created + 1
       ELSE /\ hk_local' = Null
            /\ hk_created' = hk_created
    /\ hk_pc' = [hk_pc EXCEPT ![t] = "check"]
    /\ UNCHANGED <<notHK, hk_registered, hk_once, hk_fn, hk_ret>>

\* if (!privateuse1_hooks_local) privateuse1_hooks_local = new FooHooksInterface(...);
\* the lambda returns and call_once sets the flag.
HkDefault(t) ==
    /\ hk_pc[t] = "check"
    /\ IF HkNeedsDefault(hk_local)
       THEN /\ hk_local' = [kind |-> "default", id |-> hk_created + 1]
            /\ hk_created' = hk_created + 1
       ELSE UNCHANGED <<hk_local, hk_created>>
    /\ hk_once' = "set"
    /\ hk_pc' = [hk_pc EXCEPT ![t] = "ret"]
    /\ UNCHANGED <<notHK, hk_registered, hk_fn, hk_ret>>

\* return privateuse1_hooks_local;
HkReturn(t) ==
    /\ hk_pc[t] = "ret"
    /\ hk_ret' = [hk_ret EXCEPT ![t] = hk_local]
    /\ hk_pc' = [hk_pc EXCEPT ![t] = "idle"]
    /\ UNCHANGED <<notHK, hk_registered, hk_once, hk_local, hk_created, hk_fn>>

HkNext ==
    \/ \E t \in Threads, fn \in HkFunctions : HkCall(t, fn)
    \/ \E t \in Threads : HkEnter(t)
    \/ \E t \in Threads : HkPass(t)
    \/ \E t \in Threads : HkCreate(t)
    \/ \E t \in Threads : HkDefault(t)
    \/ \E t \in Threads : HkReturn(t)

HooksSpec == HkInit /\ [][HkNext]_vars

\* C15: the hooks object is created exactly once, also when the first calls
\* race; every call returns that one non-null object, which is the registry's
\* "FooHooks" object or, when the registry yields nothing, a default one; and the
\* pointer, once non-null, is never replaced.
C15_HooksOnce ==
    /\ [](/\ hk_created <= 1
          /\ hk_once = "set" =>
                /\ hk_created = 1
                /\ hk_local # Null
                /\ hk_local.kind = IF hk_registered THEN "FooHooks" ELSE "default"
          /\ \A t \in Threads :
                hk_ret[t] # NoRet => (hk_ret[t] = hk_local /\ hk_ret[t] # Null))
    /\ [][hk_local # Null => hk_local' = hk_local]_vars

\* Two threads raced on the first call, one through get_private_hooks and one
\* through register_hook; the registry yielded nothing; both got the one default
\* object.
C15_Witness ==
    /\ ~hk_registered
    /\ hk_created = 1
    /\ \E t, u \in Threads :
        /\ hk_fn[t] = "get_private_hooks"
        /\ hk_fn[u] = "register_hook"
        /\ hk_ret[t] = hk_local
        /\ hk_ret[u] = hk_local
        /\ hk_local.kind = "default"


\* ========================================================== the XPU device pool
\* c10::call_once(init_flag, initGlobalDevicePoolState): one caller at a time
\* runs the initialiser; the flag is set when the initialiser returns, and is
\* left unset when it throws.
XpuOnceMayRun(flag) == flag = "unset"
XpuOnceMayPass(flag) == flag = "set"

\* check_device: device >= 0 && device < total
check_device_NoUpperBound(device, total) == device >= 0
check_device(device, total) == device >= 0 /\ device < total

XpuFunctions == {"device_count", "current_device", "set_device",
                 "get_raw_device", "get_device_context", "get_device_properties",
                 "get_device_idx_from_pointer", "device_count_ensure_non_zero",
                 "exchange_device"}
\* The pointers callers pass to get_device_idx_from_pointer: null, a host
\* pointer, or memory allocated on SYCL device d.  The GPU devices enumDevices
\* pushes are 0..xpu_sys-1; a larger d is a device of the context that is no
\* GPU of the pool.
PtrArgs == {[kind |-> k, device |-> 0] : k \in {"null", "host"}}
           \cup {[kind |-> "device", device |-> d] : d \in 0..MaxDevices}
\* The device indices callers pass, in and out of range.
DevArgs == (0 - 1)..MaxDevices
\* The DeviceProp* callers pass to get_device_properties.
PropArgs == {"null", "valid"}

XpuInit ==
    /\ xpu_sys \in 0..MaxDevices
    /\ xpu_flag = "unset"
    /\ xpu_devices = 0
    /\ xpu_context = FALSE
    /\ xpu_enumRuns = 0
    /\ xpu_pc = [t \in Threads |-> "idle"]
    /\ xpu_fn = [t \in Threads |-> "none"]
    /\ xpu_cur = [t \in Threads |-> 0]
    /\ xpu_out = "none"
    /\ IdleButXPU

\* A thread calls one of the XPU functions; each starts with
\* initDevicePoolCallOnce().
XpuCall(t, fn) ==
    /\ xpu_pc[t] = "idle"
    /\ xpu_pc' = [xpu_pc EXCEPT ![t] = "call_once"]
    /\ xpu_fn' = [xpu_fn EXCEPT ![t] = fn]
    /\ UNCHANGED <<notXPU, xpu_sys, xpu_flag, xpu_devices, xpu_context,
                   xpu_enumRuns, xpu_cur, xpu_out>>

\* call_once finds init_flag unset: this thread runs initGlobalDevicePoolState.
XpuEnter(t) ==
    /\ xpu_pc[t] = "call_once"
    /\ XpuOnceMayRun(xpu_flag)
    /\ xpu_flag' = "running"
    /\ xpu_pc' = [xpu_pc EXCEPT ![t] = "enum"]
    /\ UNCHANGED <<notXPU, xpu_sys, xpu_devices, xpu_context, xpu_enumRuns,
                   xpu_fn, xpu_cur, xpu_out>>

\* call_once finds init_flag set.
XpuPass(t) ==
    /\ xpu_pc[t] = "call_once"
    /\ XpuOnceMayPass(xpu_flag)
    /\ xpu_pc' = [xpu_pc EXCEPT ![t] = "body"]
    /\ UNCHANGED <<notXPU, xpu_sys, xpu_flag, xpu_devices, xpu_context,
                   xpu_enumRuns, xpu_fn, xpu_cur, xpu_out>>

\* initGlobalDevicePoolState throws on thread t: call_once leaves init_flag
\* unset and the exception leaves the XPU function the thread called.
XpuInitThrows(t) ==
    /\ xpu_flag' = "unset"
    /\ xpu_pc' = [xpu_pc EXCEPT ![t] = "idle"]
    /\ xpu_fn' = [xpu_fn EXCEPT ![t] = "none"]
    /\ xpu_out' = "error"

\* enumDevices(gDevicePool.devices) appends every GPU device found to the
\* pool, which nothing ever clears; with none in the pool
\* initGlobalDevicePoolState warns and returns, and call_once sets the flag.
\* The SYCL calls and the allocations of enumDevices may throw, after found
\* devices were appended.
XpuEnumDevices(t, found, throws) ==
    /\ xpu_pc[t] = "enum"
    /\ found <= xpu_sys
    /\ xpu_devices' = xpu_devices + found
    /\ xpu_enumRuns' = xpu_enumRuns + 1
    /\ IF throws
       THEN /\ xpu_enumRuns' < MaxInitRuns
            /\ XpuInitThrows(t)
       ELSE /\ found = xpu_sys
            /\ IF xpu_devices' = 0
               THEN /\ xpu_flag' = "set"
                    /\ xpu_pc' = [xpu_pc EXCEPT ![t] = "body"]
               ELSE /\ xpu_flag' = xpu_flag
                    /\ xpu_pc' = [xpu_pc EXCEPT ![t] = "context"]
            /\ UNCHANGED <<xpu_fn, xpu_out>>
    /\ UNCHANGED <<notXPU, xpu_sys, xpu_context, xpu_cur>>

\* gDevicePool.context = std::make_unique<sycl::context>(...); the initialiser
\* returns and call_once sets the flag, or making the context throws.
XpuMakeContext(t, throws) ==
    /\ xpu_pc[t] = "context"
    /\ IF throws
       THEN /\ xpu_enumRuns < MaxInitRuns
            /\ XpuInitThrows(t)
            /\ UNCHANGED xpu_context
       ELSE /\ xpu_context' = TRUE
            /\ xpu_flag' = "set"
            /\ xpu_pc' = [xpu_pc EXCEPT ![t] = "body"]
            /\ UNCHANGED <<xpu_fn, xpu_out>>
    /\ UNCHANGED <<notXPU, xpu_sys, xpu_devices, xpu_enumRuns, xpu_cur>>

\* device_count and current_device read and return.
XpuQuery(t) ==
    /\ xpu_pc[t] = "body"
    /\ xpu_fn[t] \in {"device_count", "current_device"}
    /\ xpu_out' = "ok"
    /\ xpu_pc' = [xpu_pc EXCEPT ![t] = "idle"]
    /\ xpu_fn' = [xpu_fn EXCEPT ![t] = "none"]
    /\ UNCHANGED <<notXPU, xpu_sys, xpu_flag, xpu_devices, xpu_context,
                   xpu_enumRuns, xpu_cur>>

\* get_device_context: TORCH_CHECK(gDevicePool.context, ...)
get_device_context(t) ==
    /\ xpu_pc[t] = "body"
    /\ xpu_fn[t] = "get_device_context"
    /\ xpu_out' = IF xpu_context THEN "ok" ELSE "error"
    /\ xpu_pc' = [xpu_pc EXCEPT ![t] = "idle"]
    /\ xpu_fn' = [xpu_fn EXCEPT ![t] = "none"]
    /\ UNCHANGED <<notXPU, xpu_sys, xpu_flag, xpu_devices, xpu_context,
                   xpu_enumRuns, xpu_cur>>

\* get_raw_device(device): check_device(device), then read the pool.
get_raw_device(t, device) ==
    /\ xpu_pc[t] = "body"
    /\ xpu_fn[t] = "get_raw_device"
    /\ xpu_out' = IF check_device(device, xpu_devices) THEN "ok" ELSE "error"
    /\ xpu_pc' = [xpu_pc EXCEPT ![t] = "idle"]
    /\ xpu_fn' = [xpu_fn EXCEPT ![t] = "none"]
    /\ UNCHANGED <<notXPU, xpu_sys, xpu_flag, xpu_devices, xpu_context,
                   xpu_enumRuns, xpu_cur>>

\* get_device_properties(device_prop, device): TORCH_CHECK(device_prop, ...),
\* check_device(device), then initDeviceProperties, whose SYCL queries may
\* throw.
get_device_properties(t, device_prop, device, throws) ==
    /\ xpu_pc[t] = "body"
    /\ xpu_fn[t] = "get_device_properties"
    /\ xpu_out' = IF device_prop = "null" THEN "error"
                  ELSE IF ~check_device(device, xpu_devices) THEN "error"
                  ELSE IF throws THEN "error"
                  ELSE "ok"
    /\ xpu_pc' = [xpu_pc EXCEPT ![t] = "idle"]
    /\ xpu_fn' = [xpu_fn EXCEPT ![t] = "none"]
    /\ UNCHANGED <<notXPU, xpu_sys, xpu_flag, xpu_devices, xpu_context,
                   xpu_enumRuns, xpu_cur>>

\* set_device(device): check_device(device); curDeviceIndex = device;
set_device(t, device) ==
    /\ xpu_pc[t] = "body"
    /\ xpu_fn[t] = "set_device"
    /\ IF check_device(device, xpu_devices)
       THEN /\ xpu_cur' = [xpu_cur EXCEPT ![t] = device]
            /\ xpu_out' = "ok"
       ELSE /\ xpu_cur' = xpu_cur
            /\ xpu_out' = "error"
    /\ xpu_pc' = [xpu_pc EXCEPT ![t] = "idle"]
    /\ xpu_fn' = [xpu_fn EXCEPT ![t] = "none"]
    /\ UNCHANGED <<notXPU, xpu_sys, xpu_flag, xpu_devices, xpu_context, xpu_enumRuns>>

\* std::find_if over gDevicePool.devices for raw_device: the pool holds a GPU
\* device once enumDevices has pushed it, and never a device that is no GPU.
FoundInPool(raw_device, devices, sys) == raw_device < sys /\ raw_device < devices

\* get_device_idx_from_pointer(ptr): TORCH_CHECK(ptr); get_device_context()
\* with its TORCH_CHECK(gDevicePool.context); the pointer must be of device
\* type, and TORCH_CHECK(it != end) that its device is one of the pool.  The
\* SYCL pointer queries may throw.
get_device_idx_from_pointer(t, ptr, throws) ==
    /\ xpu_pc[t] = "body"
    /\ xpu_fn[t] = "get_device_idx_from_pointer"
    /\ xpu_out' = IF ptr.kind # "null" /\ xpu_context /\ ~throws
                     /\ ptr.kind = "device"
                     /\ FoundInPool(ptr.device, xpu_devices, xpu_sys)
                  THEN "ok" ELSE "error"
    /\ xpu_pc' = [xpu_pc EXCEPT ![t] = "idle"]
    /\ xpu_fn' = [xpu_fn EXCEPT ![t] = "none"]
    /\ UNCHANGED <<notXPU, xpu_sys, xpu_flag, xpu_devices, xpu_context,
                   xpu_enumRuns, xpu_cur>>

\* device_count_ensure_non_zero: count = device_count(); TORCH_CHECK(count, ...)
device_count_ensure_non_zero(t) ==
    /\ xpu_pc[t] = "body"
    /\ xpu_fn[t] = "device_count_ensure_non_zero"
    /\ xpu_out' = IF xpu_devices # 0 THEN "ok" ELSE "error"
    /\ xpu_pc' = [xpu_pc EXCEPT ![t] = "idle"]
    /\ xpu_fn' = [xpu_fn EXCEPT ![t] = "none"]
    /\ UNCHANGED <<notXPU, xpu_sys, xpu_flag, xpu_devices, xpu_context,
                   xpu_enumRuns, xpu_cur>>

\* exchange_device(to_device): cur_device = current_device(); unless
\* to_device is the current device, set_device(to_device).
exchange_device(t, to_device) ==
    /\ xpu_pc[t] = "body"
    /\ xpu_fn[t] = "exchange_device"
    /\ IF to_device = xpu_cur[t]
       THEN /\ xpu_cur' = xpu_cur
            /\ xpu_out' = "ok"
       ELSE IF check_device(to_device, xpu_devices)
       THEN /\ xpu_cur' = [xpu_cur EXCEPT ![t] = to_device]
            /\ xpu_out' = "ok"
       ELSE /\ xpu_cur' = xpu_cur
            /\ xpu_out' = "error"
    /\ xpu_pc' = [xpu_pc EXCEPT ![t] = "idle"]
    /\ xpu_fn' = [xpu_fn EXCEPT ![t] = "none"]
    /\ UNCHANGED <<notXPU, xpu_sys, xpu_flag, xpu_devices, xpu_context, xpu_enumRuns>>

XpuNext ==
    \/ \E t \in Threads, fn \in XpuFunctions : XpuCall(t, fn)
    \/ \E t \in Threads : XpuEnter(t)
    \/ \E t \in Threads : XpuPass(t)
    \/ \E t \in Threads, found \in 0..MaxDevices, throws \in BOOLEAN :
            XpuEnumDevices(t, found, throws)
    \/ \E t \in Threads, throws \in BOOLEAN : XpuMakeContext(t, throws)
    \/ \E t \in Threads : XpuQuery(t)
    \/ \E t \in Threads : get_device_context(t)
    \/ \E t \in Threads, device \in DevArgs : get_raw_device(t, device)
    \/ \E t \in Threads, device_prop \in PropArgs, device \in DevArgs,
            throws \in BOOLEAN :
            get_device_properties(t, device_prop, device, throws)
    \/ \E t \in Threads, device \in DevArgs : set_device(t, device)
    \/ \E t \in Threads, ptr \in PtrArgs, throws \in BOOLEAN :
            get_device_idx_from_pointer(t, ptr, throws)
    \/ \E t \in Threads : device_count_ensure_non_zero(t)
    \/ \E t \in Threads, device \in DevArgs : exchange_device(t, device)

XpuSpec == XpuInit /\ [][XpuNext]_vars

\* C16: initGlobalDevicePoolState runs exactly once whatever the interleaving
\* of first calls; a caller goes on into the body of its function only after
\* that run has completed (the flag is set, the devices are enumerated, and the
\* context exists unless there are no devices); and the pool is never
\* enumerated again, also when the run found no device.
C16_InitOnce ==
    /\ [](/\ xpu_enumRuns <= 1
          /\ Cardinality({t \in Threads : xpu_pc[t] \in {"enum", "context"}}) <= 1
          /\ \A t \in Threads :
                xpu_pc[t] = "body" =>
                    /\ xpu_flag = "set"
                    /\ xpu_enumRuns = 1
                    /\ xpu_devices = xpu_sys
                    /\ xpu_context = (xpu_sys > 0))
    /\ [][xpu_flag = "set" =>
            /\ xpu_flag' = "set"
            /\ xpu_devices' = xpu_devices
            /\ xpu_enumRuns' = xpu_enumRuns
            /\ xpu_context' = xpu_context]_vars

\* ================================================================ getAccelerator
\* The order of the DETECT_AND_ASSIGN_ACCELERATOR lines.
Accelerators == <<"CUDA", "MTIA", "XPU", "HIP", "MPS">>
AcceleratorSet == {Accelerators[i] : i \in 1..Len(Accelerators)}

AccStart == [device_type |-> "nullopt", is_accelerator_detected |-> FALSE,
             error |-> "none"]

\* DETECT_AND_ASSIGN_ACCELERATOR(device_name), run in state acc; once a
\* TORCH_CHECK has thrown nothing more runs.
DETECT_AND_ASSIGN_ACCELERATOR_NoCheck(acc, device_name, has) ==
    IF device_name \in has
    THEN [acc EXCEPT !.device_type = device_name, !.is_accelerator_detected = TRUE]
    ELSE acc
DETECT_AND_ASSIGN_ACCELERATOR(acc, device_name, has) ==
    IF acc.error # "none" THEN acc
    ELSE IF device_name \in has
    THEN IF acc.is_accelerator_detected
         THEN [acc EXCEPT !.device_type = device_name, !.error = device_name]
         ELSE [acc EXCEPT !.device_type = device_name,
                          !.is_accelerator_detected = TRUE]
    ELSE acc

RECURSIVE DetectFrom(_, _, _)
DetectFrom(acc, i, has) ==
    IF i > Len(Accelerators) THEN acc
    ELSE DetectFrom(DETECT_AND_ASSIGN_ACCELERATOR(acc, Accelerators[i], has),
                    i + 1, has)

\* std::optional<c10::DeviceType> getAccelerator(bool checked); an error is
\* "conflict" with the accelerator named in the message, or "unavailable".
getAccelerator(pu1, has, checked) ==
    IF pu1 THEN [kind |-> "value", dev |-> "PrivateUse1"]
    ELSE LET acc == DetectFrom(AccStart, 1, has) IN
        IF acc.error # "none" THEN [kind |-> "conflict", dev |-> acc.error]
        ELSE IF checked /\ acc.device_type = "nullopt"
        THEN [kind |-> "unavailable", dev |-> "none"]
        ELSE IF acc.device_type = "nullopt" THEN [kind |-> "nullopt", dev |-> "none"]
        ELSE [kind |-> "value", dev |-> acc.device_type]

AccInit ==
    /\ acc_pu1 \in BOOLEAN
    /\ acc_has \in SUBSET AcceleratorSet
    /\ acc_checked \in BOOLEAN
    /\ acc_result = [kind |-> "pending", dev |-> "none"]
    /\ IdleButACC

AccGet ==
    /\ acc_result.kind = "pending"
    /\ acc_result' = getAccelerator(acc_pu1, acc_has, acc_checked)
    /\ UNCHANGED <<notACC, acc_pu1, acc_has, acc_checked>>

AccNext == AccGet

AcceleratorSpec == AccInit /\ [][AccNext]_vars

\* C17: with a registered PrivateUse1 backend getAccelerator returns PrivateUse1
\* whatever else is available; without one, two or more available built-in
\* accelerators make it raise an error instead of reporting any of them, and
\* exactly one available accelerator is the one it returns.
C17_OneAccelerator ==
    acc_result.kind # "pending" =>
        /\ acc_pu1 => acc_result = [kind |-> "value", dev |-> "PrivateUse1"]
        /\ (~acc_pu1 /\ Cardinality(acc_has) >= 2) => acc_result.kind = "conflict"
        /\ (~acc_pu1 /\ Cardinality(acc_has) = 1) =>
               (acc_result.kind = "value" /\ acc_has = {acc_result.dev})

\* CUDA and XPU are both available, no PrivateUse1 backend is registered, and
\* getAccelerator raised the error that names XPU.
C17_Witness ==
    /\ ~acc_pu1
    /\ acc_has = {"CUDA", "XPU"}
    /\ acc_result = [kind |-> "conflict", dev |-> "XPU"]


\* ============================================================ the Python GIL hooks
GILHooks == 1..NumGILHooks

\* std::getenv("TORCH_DISABLE_DEADLOCK_DETECTION") != nullptr
disable_detection_Never(env) == FALSE
disable_detection(env) == env

DdInit ==
    /\ dd_env \in BOOLEAN
    /\ dd_envHeld = dd_env
    /\ dd_hooks = NullHooks
    /\ dd_log = <<>>
    /\ IdleButDD

\* void SetPythonGILHooks(PythonGILHooks* hooks)
SetPythonGILHooks(hooks) ==
    /\ Len(dd_log) < MaxGILCalls
    /\ IF disable_detection(dd_env)
       THEN /\ dd_hooks' = dd_hooks
            /\ dd_log' = Append(dd_log, [op |-> "SetPythonGILHooks", arg |-> hooks,
                                         out |-> "disabled"])
       ELSE IF ~(hooks = NullHooks \/ dd_hooks = NullHooks)
       THEN /\ dd_hooks' = dd_hooks
            /\ dd_log' = Append(dd_log, [op |-> "SetPythonGILHooks", arg |-> hooks,
                                         out |-> "assert"])
       ELSE /\ dd_hooks' = hooks
            /\ dd_log' = Append(dd_log, [op |-> "SetPythonGILHooks", arg |-> hooks,
                                         out |-> "set"])
    /\ UNCHANGED <<notDD, dd_env, dd_envHeld>>

\* bool check_python_gil(); held is what the installed hooks report.
check_python_gil(held) ==
    /\ Len(dd_log) < MaxGILCalls
    /\ dd_log' = Append(dd_log,
            [op |-> "check_python_gil", arg |-> NullHooks,
             out |-> IF dd_hooks = NullHooks THEN "false"
                     ELSE IF held THEN "true" ELSE "false"])
    /\ UNCHANGED <<notDD, dd_env, dd_envHeld, dd_hooks>>

\* The process changes its environment.
DdSetEnv(present) ==
    /\ Len(dd_log) < MaxGILCalls
    /\ dd_env # present
    /\ dd_env' = present
    /\ dd_envHeld' = (dd_envHeld /\ present)
    /\ dd_log' = Append(dd_log, [op |-> "setenv", arg |-> NullHooks,
                                 out |-> IF present THEN "true" ELSE "false"])
    /\ UNCHANGED <<notDD, dd_hooks>>

DdNext ==
    \/ \E hooks \in {NullHooks} \cup GILHooks : SetPythonGILHooks(hooks)
    \/ \E held \in BOOLEAN : check_python_gil(held)
    \/ \E present \in BOOLEAN : DdSetEnv(present)

DeadlockDetectionSpec == DdInit /\ [][DdNext]_vars

\* C18: while TORCH_DISABLE_DEADLOCK_DETECTION is present, a call of
\* SetPythonGILHooks leaves python_gil_hooks as it was; so when the variable
\* has been present since the start, no hooks are ever installed and every
\* check_python_gil returns false.
C18_DisabledInstallsNothing ==
    /\ [](dd_envHeld =>
            /\ dd_hooks = NullHooks
            /\ \A i \in 1..Len(dd_log) :
                   dd_log[i].op = "check_python_gil" => dd_log[i].out = "false")
    /\ [][(/\ dd_env
           /\ Len(dd_log') > Len(dd_log)
           /\ dd_log'[Len(dd_log')].op = "SetPythonGILHooks")
          => dd_hooks' = dd_hooks]_vars

\* With the variable present, SetPythonGILHooks was called with two different
\* hooks objects and check_python_gil then returned false.
C18_Witness ==
    /\ dd_envHeld
    /\ Len(dd_log) = 3
    /\ dd_log[1].op = "SetPythonGILHooks" /\ dd_log[1].arg = 1
    /\ dd_log[2].op = "SetPythonGILHooks" /\ dd_log[2].arg = 2
    /\ dd_log[3] = [op |-> "check_python_gil", arg |-> NullHooks, out |-> "false"]


\* ================================================================ the dispatcher
Prio(k) == CHOOSE i \in 1..Len(KeyOrder) : KeyOrder[i] = k
\* The highest-priority key of a non-empty key set.
TopKey(S) == CHOOSE k \in S : \A j \in S : Prio(k) <= Prio(j)

\* computeDispatchKeySet: the backend keys of the argument tensors and the
\* functionality keys of the ambient context.
computeDispatchKeySet(devices, ambient) == devices \cup ambient

\* The table entry for (op, key) or, when there is none, the key's boxed fallback.
LookupKernel_NextBackend(table, fallback, op, k) ==
    IF table[op][k] # "none" THEN table[op][k] ELSE "cpu_kernel"
LookupKernel(table, fallback, op, k) ==
    IF table[op][k] # "none" THEN table[op][k] ELSE fallback[k]

\* The key set a kernel that calls through dispatches on: the one it was given.
RedispatchSet_Fresh(computed, given) == computed
RedispatchSet(computed, given) == given

\* custom_cpu_fallback(op, stack): at::native::cpu_fallback(op, stack) runs the
\* CPU kernel of op.
custom_cpu_fallback_OtherOp(op) == "add.Tensor"
custom_cpu_fallback(op) == op

DispInit ==
    /\ disp_table = StaticTable
    /\ disp_fallback = [k \in DispKeys |-> "none"]
    /\ disp_status = "idle"
    /\ disp_op = "none"
    /\ disp_keys0 = {}
    /\ disp_keys = {}
    /\ disp_trace = <<>>
    /\ disp_result = "none"
    /\ IdleButDISP

\* registerBoxedFallback(PrivateUse1, custom_cpu_fallback)
DispRegisterFallback ==
    /\ disp_status = "idle"
    /\ disp_fallback["PrivateUse1"] = "none"
    /\ disp_fallback' = [disp_fallback EXCEPT !["PrivateUse1"] = "custom_cpu_fallback"]
    /\ UNCHANGED <<notDISP, disp_table, disp_status, disp_op, disp_keys0,
                   disp_keys, disp_trace, disp_result>>

\* An operator is called with tensors on the given devices under the given
\* ambient context.
DispCall(op, devices, ambient) ==
    /\ disp_status = "idle"
    /\ disp_status' = "running"
    /\ disp_op' = op
    /\ disp_keys0' = computeDispatchKeySet(devices, ambient)
    /\ disp_keys' = computeDispatchKeySet(devices, ambient)
    /\ disp_trace' = <<>>
    /\ disp_result' = "none"
    /\ UNCHANGED <<notDISP, disp_table, disp_fallback>>

\* dispatch(op, keySet, stack): take the highest-priority key, look its kernel up
\* and invoke it with the remaining set.  A wrapper calls through; a backend
\* kernel computes the result; with neither kernel nor fallback the call fails.
DispDispatch ==
    /\ disp_status = "running"
    /\ Len(disp_trace) < MaxDepth
    /\ disp_keys # {}
    /\ LET k == TopKey(disp_keys)
           rest == disp_keys \ {k}
           kern == LookupKernel(disp_table, disp_fallback, disp_op, k)
       IN  IF kern = "none"
           THEN /\ disp_status' = "error"
                /\ disp_result' = "unimplemented"
                /\ UNCHANGED <<disp_trace, disp_keys>>
           ELSE /\ disp_trace' = Append(disp_trace,
                        [key |-> k, kernel |-> kern, op |-> disp_op, got |-> rest,
                         via |-> "dispatch"])
                /\ IF kern = "wrapper"
                   THEN /\ disp_keys' = RedispatchSet(disp_keys0, rest)
                        /\ disp_status' = "running"
                        /\ disp_result' = disp_result
                   ELSE IF kern = "custom_cpu_fallback"
                   THEN /\ disp_keys' = rest
                        /\ disp_status' = "in_fallback"
                        /\ disp_result' = disp_result
                   ELSE /\ disp_keys' = rest
                        /\ disp_status' = "done"
                        /\ disp_result' = kern
    /\ UNCHANGED <<notDISP, disp_table, disp_fallback, disp_op, disp_keys0>>

\* The fallback moves the arguments to the CPU, invokes the CPU kernel of the
\* operator and moves the outputs back.
DispFallbackToCPU ==
    /\ disp_status = "in_fallback"
    /\ disp_trace' = Append(disp_trace,
            [key |-> "CPU", kernel |-> disp_table[custom_cpu_fallback(disp_op)]["CPU"],
             op |-> custom_cpu_fallback(disp_op), got |-> disp_keys \ {"CPU"},
             via |-> "fallback"])
    /\ disp_keys' = disp_keys \ {"CPU"}
    /\ disp_status' = "done"
    /\ disp_result' = "cpu_kernel"
    /\ UNCHANGED <<notDISP, disp_table, disp_fallback, disp_op, disp_keys0>>

\* The call has returned or thrown; the next one can start.
DispReturn ==
    /\ disp_status \in {"done", "error"}
    /\ disp_status' = "idle"
    /\ disp_op' = "none"
    /\ disp_keys0' = {}
    /\ disp_keys' = {}
    /\ disp_trace' = <<>>
    /\ disp_result' = "none"
    /\ UNCHANGED <<notDISP, disp_table, disp_fallback>>

DispNext ==
    \/ DispRegisterFallback
    \/ \E op \in DispOps, devices \in (SUBSET BackendKeys) \ {{}},
          ambient \in SUBSET FunctionalityKeys : DispCall(op, devices, ambient)
    \/ DispDispatch
    \/ DispFallbackToCPU
    \/ DispReturn

DispatchSpec == DispInit /\ [][DispNext]_vars

\* The backend key the call dispatches on, and the kernels invoked for it.
DispBackend == TopKey(disp_keys0 \cap BackendKeys)
DispFinished == disp_status \in {"done", "error"}
DispBackendEntries ==
    {i \in 1..Len(disp_trace) : disp_trace[i].key \in BackendKeys}

\* C19: an operator whose backend key K has no kernel of its own but a boxed
\* fallback, and sub.Tensor on PrivateUse1, which the extension routes to
\* custom_cpu_fallback, end with the fallback invoked and then the CPU kernel
\* of the same operator; an operator with neither kernel nor fallback for K
\* fails as unimplemented, with no backend kernel run and no result.
C19_FallbackOrUnimplemented ==
    DispFinished =>
        LET K == DispBackend
            n == Len(disp_trace)
            viaFallback ==
                \/ (disp_table[disp_op][K] = "none" /\ disp_fallback[K] # "none")
                \/ (disp_op = "sub.Tensor" /\ K = "PrivateUse1")
        IN  /\ viaFallback =>
                /\ disp_status = "done"
                /\ n >= 2
                /\ disp_trace[n - 1].key = K
                /\ disp_trace[n - 1].kernel = "custom_cpu_fallback"
                /\ disp_trace[n].via = "fallback"
                /\ disp_trace[n].key = "CPU"
                /\ disp_trace[n].kernel = "cpu_kernel"
                /\ disp_trace[n].op = disp_op
                /\ disp_result = "cpu_kernel"
            /\ (disp_table[disp_op][K] = "none" /\ disp_fallback[K] = "none") =>
                /\ disp_status = "error"
                /\ disp_result = "unimplemented"
                /\ DispBackendEntries = {}

\* mul.Tensor, which has no PrivateUse1 kernel, was called on a PrivateUse1 and
\* a CPU tensor with the boxed fallback registered: the fallback ran, then the
\* CPU kernel of mul.Tensor.
C19_Witness ==
    /\ disp_status = "done"
    /\ disp_op = "mul.Tensor"
    /\ disp_keys0 = {"Autograd", "PrivateUse1", "CPU"}
    /\ disp_fallback["PrivateUse1"] = "custom_cpu_fallback"
    /\ Len(disp_trace) = 3
    /\ disp_trace[2].kernel = "custom_cpu_fallback"
    /\ disp_trace[3].kernel = "cpu_kernel"
    /\ disp_trace[3].op = "mul.Tensor"

\* C20: every kernel invoked through dispatch receives the key set it was
\* selected from with its own key removed, the next dispatch uses exactly that
\* set, so the sets shrink strictly from one dispatch to the next, no key's
\* kernel runs twice in one call, and every dispatch step shortens the key
\* set, so the chain ends.
C20_KeySetShrinks ==
    /\ [](/\ \A i \in 1..Len(disp_trace) :
                /\ disp_trace[i].key \notin disp_trace[i].got
                /\ \A j \in 1..Len(disp_trace) :
                       i < j =>
                           /\ disp_trace[i].key # disp_trace[j].key
                           /\ disp_trace[j].got \subseteq disp_trace[i].got
                           /\ disp_trace[j].via = "dispatch" =>
                                  /\ disp_trace[j].key \in disp_trace[i].got
                                  /\ disp_trace[j].got # disp_trace[i].got
          /\ Len(disp_trace) <= Cardinality(disp_keys0) + 1
          /\ Len(disp_trace) < MaxDepth
          /\ disp_status = "running" =>
                /\ disp_keys # {}
                /\ disp_trace # <<>> => disp_keys = disp_trace[Len(disp_trace)].got)
    /\ [][(disp_status = "running" /\ disp_status' # "idle") =>
            \/ disp_status' = "error"
            \/ (Cardinality(disp_keys') < Cardinality(disp_keys)
                /\ disp_keys' \subseteq disp_keys)]_vars

\* Under tracing and autograd, add.Tensor on a PrivateUse1 tensor ran the two
\* wrappers and then the backend kernel, each on a smaller key set.
C20_Witness ==
    /\ disp_status = "done"
    /\ disp_op = "add.Tensor"
    /\ disp_keys0 = {"Tracer", "Autograd", "PrivateUse1"}
    /\ Len(disp_trace) = 3
    /\ disp_trace[1] = [key |-> "Tracer", kernel |-> "wrapper", op |-> "add.Tensor",
                        got |-> {"Autograd", "PrivateUse1"}, via |-> "dispatch"]
    /\ disp_trace[2] = [key |-> "Autograd", kernel |-> "wrapper", op |-> "add.Tensor",
                        got |-> {"PrivateUse1"}, via |-> "dispatch"]
    /\ disp_trace[3] = [key |-> "PrivateUse1", kernel |-> "custom_add_Tensor",
                        op |-> "add.Tensor", got |-> {}, via |-> "dispatch"]


\* ============================================================ kernel registration
\* registerKernel(operatorKey, backendComponentKey, callable, mode)
RegModes == {"insert-or-replace", "insert-or-fail"}
\* The kernels later registrations bring.
NewKernels == {"kernel_A", "kernel_B"}

\* A registration in insert-or-fail mode on a pair that has a kernel is rejected.
RegisterRejected_Never(old, mode) == FALSE
RegisterRejected(old, mode) == old # "none" /\ mode = "insert-or-fail"

\* The live kernel of the pair after the registration.
KernelAfterRegister_FirstWins(old, new, mode) == IF old = "none" THEN new ELSE old
KernelAfterRegister(old, new, mode) ==
    IF RegisterRejected(old, mode) THEN old ELSE new

KrInit ==
    /\ kr_table = StaticTable
    /\ kr_log = <<>>
    /\ IdleButKR

registerKernel(op, k, callable, mode) ==
    /\ Len(kr_log) < MaxRegCalls
    /\ kr_table' = [kr_table EXCEPT ![op][k] = KernelAfterRegister(@, callable, mode)]
    /\ kr_log' = Append(kr_log,
            [call |-> "registerKernel", op |-> op, key |-> k, kernel |-> callable,
             mode |-> mode,
             out |-> IF RegisterRejected(kr_table[op][k], mode)
                     THEN "rejected" ELSE "registered"])
    /\ UNCHANGED notKR

\* dispatch of op on a tensor of backend k: the kernel the table holds for the
\* pair is invoked, or the call fails as unimplemented.
KrDispatch(op, k) ==
    /\ Len(kr_log) < MaxRegCalls
    /\ kr_log' = Append(kr_log,
            [call |-> "dispatch", op |-> op, key |-> k,
             kernel |-> LookupKernel(kr_table, [j \in DispKeys |-> "none"], op, k),
             mode |-> "none",
             out |-> IF LookupKernel(kr_table, [j \in DispKeys |-> "none"], op, k) = "none"
                     THEN "unimplemented" ELSE "invoked"])
    /\ UNCHANGED <<notKR, kr_table>>

KrNext ==
    \/ \E op \in DispOps, callable \in NewKernels, mode \in RegModes :
           registerKernel(op, "PrivateUse1", callable, mode)
    \/ \E op \in DispOps : KrDispatch(op, "PrivateUse1")

RegistrySpec == KrInit /\ [][KrNext]_vars

\* The registrations accepted for the pair of entry i before entry i.
KrAcceptedBefore(i) ==
    {j \in 1..(i - 1) :
        /\ kr_log[j].call = "registerKernel"
        /\ kr_log[j].op = kr_log[i].op
        /\ kr_log[j].key = kr_log[i].key
        /\ kr_log[j].out = "registered"}
\* The kernel that is live for the pair of entry i when entry i happens.
KrLiveBefore(i) ==
    IF KrAcceptedBefore(i) = {} THEN StaticTable[kr_log[i].op][kr_log[i].key]
    ELSE kr_log[CHOOSE j \in KrAcceptedBefore(i) :
                    \A l \in KrAcceptedBefore(i) : l <= j].kernel

\* C21: on a pair that has a kernel, a registration in insert-or-replace mode is
\* accepted and makes its kernel the one every later dispatch invokes, until
\* the next accepted registration; a registration in insert-or-fail mode is
\* rejected and leaves the kernel invoked as it was; the table holds the one
\* live kernel of each pair.
C21_SingleWriterSlot ==
    /\ \A i \in 1..Len(kr_log) :
        /\ kr_log[i].call = "registerKernel" =>
               kr_log[i].out =
                   IF KrLiveBefore(i) # "none" /\ kr_log[i].mode = "insert-or-fail"
                   THEN "rejected" ELSE "registered"
        /\ kr_log[i].call = "dispatch" =>
               /\ kr_log[i].kernel = KrLiveBefore(i)
               /\ kr_log[i].out = IF KrLiveBefore(i) = "none"
                                  THEN "unimplemented" ELSE "invoked"
    /\ \A op \in DispOps :
        LET regs == {j \in 1..Len(kr_log) :
                        /\ kr_log[j].call = "registerKernel"
                        /\ kr_log[j].op = op
                        /\ kr_log[j].out = "registered"}
        IN  kr_table[op]["PrivateUse1"] =
                IF regs = {} THEN StaticTable[op]["PrivateUse1"]
                ELSE kr_log[CHOOSE j \in regs : \A l \in regs : l <= j].kernel

\* add.Tensor has the extension's kernel; kernel_A replaced it, kernel_B in
\* insert-or-fail mode was rejected, and the dispatch invoked kernel_A.
C21_Witness ==
    /\ Len(kr_log) = 3
    /\ kr_log[1] = [call |-> "registerKernel", op |-> "add.Tensor",
                    key |-> "PrivateUse1", kernel |-> "kernel_A",
                    mode |-> "insert-or-replace", out |-> "registered"]
    /\ kr_log[2] = [call |-> "registerKernel", op |-> "add.Tensor",
                    key |-> "PrivateUse1", kernel |-> "kernel_B",
                    mode |-> "insert-or-fail", out |-> "rejected"]
    /\ kr_log[3] = [call |-> "dispatch", op |-> "add.Tensor", key |-> "PrivateUse1",
                    kernel |-> "kernel_A", mode |-> "none", out |-> "invoked"]


\* ================================================================ DebugInfoWriter
\* hasWriterRegistered_.load() == false
DwMayRegister(has) == has = FALSE

DwInit ==
    /\ dw_writer = Null
    /\ dw_has = FALSE
    /\ dw_pc = [t \in Threads |-> "idle"]
    /\ dw_fn = [t \in Threads |-> "none"]
    /\ dw_arg = [t \in Threads |-> Null]
    /\ dw_out = [t \in Threads |-> "none"]
    /\ dw_regs = 0
    /\ dw_first = Null
    /\ dw_changed = FALSE
    /\ IdleButDW

\* A thread calls registerWriter with a writer of its own.
DwCallRegister(t) ==
    /\ dw_pc[t] = "idle"
    /\ dw_pc' = [dw_pc EXCEPT ![t] = "check"]
    /\ dw_fn' = [dw_fn EXCEPT ![t] = "registerWriter"]
    /\ dw_arg' = [dw_arg EXCEPT ![t] = [kind |-> "custom", id |-> t]]
    /\ UNCHANGED <<notDW, dw_writer, dw_has, dw_out, dw_regs, dw_first, dw_changed>>

\* A thread calls getWriter(rank).
DwCallGet(t) ==
    /\ dw_pc[t] = "idle"
    /\ dw_pc' = [dw_pc EXCEPT ![t] = "test"]
    /\ dw_fn' = [dw_fn EXCEPT ![t] = "getWriter"]
    /\ UNCHANGED <<notDW, dw_writer, dw_has, dw_arg, dw_out, dw_regs, dw_first,
                   dw_changed>>

\* getWriter: if (writer_ == nullptr) it builds the default writer and calls
\* registerWriter with it.
DwTest(t) ==
    /\ dw_pc[t] = "test"
    /\ IF dw_writer = Null
       THEN /\ dw_arg' = [dw_arg EXCEPT ![t] = [kind |-> "default", id |-> t]]
            /\ dw_pc' = [dw_pc EXCEPT ![t] = "check"]
       ELSE /\ dw_arg' = dw_arg
            /\ dw_pc' = [dw_pc EXCEPT ![t] = "deref"]
    /\ UNCHANGED <<notDW, dw_writer, dw_has, dw_fn, dw_out, dw_regs, dw_first,
                   dw_changed>>

\* registerWriter: TORCH_CHECK_WITH(DistBackendError, hasWriterRegistered_.load()
\* == false, ...); the error leaves registerWriter, and getWriter if that called.
DwCheck(t) ==
    /\ dw_pc[t] = "check"
    /\ IF DwMayRegister(dw_has)
       THEN /\ dw_pc' = [dw_pc EXCEPT ![t] = "store"]
            /\ UNCHANGED <<dw_out, dw_fn, dw_arg>>
       ELSE /\ dw_pc' = [dw_pc EXCEPT ![t] = "idle"]
            /\ dw_out' = [dw_out EXCEPT ![t] = "error"]
            /\ dw_fn' = [dw_fn EXCEPT ![t] = "none"]
            /\ dw_arg' = [dw_arg EXCEPT ![t] = Null]
    /\ UNCHANGED <<notDW, dw_writer, dw_has, dw_regs, dw_first, dw_changed>>

\* hasWriterRegistered_.store(true);
DwStore(t) ==
    /\ dw_pc[t] = "store"
    /\ dw_has' = TRUE
    /\ dw_pc' = [dw_pc EXCEPT ![t] = "assign"]
    /\ UNCHANGED <<notDW, dw_writer, dw_fn, dw_arg, dw_out, dw_regs, dw_first,
                   dw_changed>>

\* writer_ = std::move(writer); registerWriter returns.
DwAssign(t) ==
    /\ dw_pc[t] = "assign"
    /\ dw_writer' = dw_arg[t]
    /\ dw_regs' = dw_regs + 1
    /\ dw_arg' = [dw_arg EXCEPT ![t] = Null]
    /\ IF dw_fn[t] = "getWriter"
       THEN /\ dw_pc' = [dw_pc EXCEPT ![t] = "deref"]
            /\ UNCHANGED <<dw_out, dw_fn>>
       ELSE /\ dw_pc' = [dw_pc EXCEPT ![t] = "idle"]
            /\ dw_out' = [dw_out EXCEPT ![t] = "registered"]
            /\ dw_fn' = [dw_fn EXCEPT ![t] = "none"]
    /\ UNCHANGED <<notDW, dw_has, dw_first, dw_changed>>

\* getWriter: return *writer_;
DwDeref(t) ==
    /\ dw_pc[t] = "deref"
    /\ dw_first' = IF dw_first = Null THEN dw_writer ELSE dw_first
    /\ dw_changed' = (dw_changed \/ (dw_first # Null /\ dw_writer # dw_first))
    /\ dw_out' = [dw_out EXCEPT ![t] = "writer"]
    /\ dw_pc' = [dw_pc EXCEPT ![t] = "idle"]
    /\ dw_fn' = [dw_fn EXCEPT ![t] = "none"]
    /\ UNCHANGED <<notDW, dw_writer, dw_has, dw_arg, dw_regs>>

DwNext ==
    \/ \E t \in Threads : DwCallRegister(t)
    \/ \E t \in Threads : DwCallGet(t)
    \/ \E t \in Threads : DwTest(t)
    \/ \E t \in Threads : DwCheck(t)
    \/ \E t \in Threads : DwStore(t)
    \/ \E t \in Threads : DwAssign(t)
    \/ \E t \in Threads : DwDeref(t)

DebugInfoWriterSpec == DwInit /\ [][DwNext]_vars

\* C22: a DebugInfoWriter is registered at most once under any interleaving of
\* calls: no second registration succeeds, by registerWriter or by getWriter's
\* auto-registration, and the writer getWriter returns never changes.
C22_RegisteredAtMostOnce ==
    /\ dw_regs <= 1
    /\ ~dw_changed
    /\ (dw_first # Null /\ dw_writer # Null) => dw_writer = dw_first


\* ======================================================= the add.Tensor call counter
\* custom_add_called: if (add_counter > last_saved_value)
AddSeen(counter, saved) == counter > saved
\* ... { called = true; last_saved_value = add_counter; }
SavedAfterQuery_NotSaved(counter, saved) == saved
SavedAfterQuery(counter, saved) == IF AddSeen(counter, saved) THEN counter ELSE saved

CntInit ==
    /\ add_counter = 0
    /\ last_saved_value = 0
    /\ cnt_log = <<>>
    /\ IdleButCNT

\* The dispatcher invokes the PrivateUse1 kernel of add.Tensor.
custom_add_Tensor ==
    /\ Len(cnt_log) < MaxAddCalls
    /\ add_counter' = add_counter + 1
    /\ cnt_log' = Append(cnt_log, [op |-> "add", out |-> "tensor"])
    /\ UNCHANGED <<notCNT, last_saved_value>>

custom_add_called ==
    /\ Len(cnt_log) < MaxAddCalls
    /\ last_saved_value' = SavedAfterQuery(add_counter, last_saved_value)
    /\ cnt_log' = Append(cnt_log,
            [op |-> "query",
             out |-> IF AddSeen(add_counter, last_saved_value) THEN "true" ELSE "false"])
    /\ UNCHANGED <<notCNT, add_counter>>

CntNext ==
    \/ custom_add_Tensor
    \/ custom_add_called

AddCounterSpec == CntInit /\ [][CntNext]_vars

\* The adds between the previous query (or the start) and call i.
CntAddsSinceQuery(i) ==
    {j \in 1..(i - 1) :
        /\ cnt_log[j].op = "add"
        /\ \A l \in (j + 1)..(i - 1) : cnt_log[l].op # "query"}

\* C23: the counter counts the invocations of the kernel, and custom_add_called
\* returns true exactly when the kernel ran since the previous query or since
\* load; so of two queries in a row the second returns false.
C23_AddCalledSinceLastQuery ==
    /\ add_counter = Cardinality({j \in 1..Len(cnt_log) : cnt_log[j].op = "add"})
    /\ \A i \in 1..Len(cnt_log) :
        cnt_log[i].op = "query" =>
            (cnt_log[i].out = "true" <=> CntAddsSinceQuery(i) # {})
    /\ \A i \in 2..Len(cnt_log) :
        (cnt_log[i].op = "query" /\ cnt_log[i - 1].op = "query") =>
            cnt_log[i].out = "false"

\* Two adds, then two queries in a row that returned true and false, then one
\* more add and a query that returned true.
C23_Witness ==
    /\ Len(cnt_log) = 6
    /\ add_counter = 3
    /\ cnt_log[3] = [op |-> "query", out |-> "true"]
    /\ cnt_log[4] = [op |-> "query", out |-> "false"]
    /\ cnt_log[5].op = "add"
    /\ cnt_log[6] = [op |-> "query", out |-> "true"]


\* ======================================================= NCCLComm abort
NcclResults == {"ncclSuccess", "ncclError"}

\* ncclCommAbort: if (aborted_ && !initialized_) return;
AbortReturnsEarly(aborted, initialized) == aborted /\ ~initialized

\* ~NCCLComm: if (ncclComm_ && initialized_ && !aborted_)
DestructorAborts(comm, initialized, aborted) ==
    comm # "null" /\ initialized /\ ~aborted

\* Object 1 as made by NCCLComm::create or NCCLComm::split (blocking:
\* initialized; nonblocking: not yet), or by the default constructor with its
\* null communicator; aborted_ starts false. The other objects do not exist yet.
NcInit ==
    /\ \E c \in {"comm", "null"} :
            nc_comm = [o \in NcObjects |-> IF o = 1 THEN c ELSE "null"]
    /\ \E i \in BOOLEAN :
            /\ i => nc_comm[1] = "comm"
            /\ nc_initialized = [o \in NcObjects |-> o = 1 /\ i]
    /\ nc_aborted = [o \in NcObjects |-> FALSE]
    /\ nc_alive = [o \in NcObjects |-> IF o = 1 THEN "alive" ELSE "none"]
    /\ nc_calls = 0
    /\ nc_log = <<>>
    /\ IdleButNC

\* NCCLComm(NCCLComm&& other): the new object n swaps ncclComm_, aborted_ and
\* initialized_ with other. Its own ncclComm_ and aborted_ have no initialiser
\* on this path, so other is left with whatever they held (c, a); its
\* initialized_ has the default member initialiser false.
NcMove(other, n, c, a) ==
    /\ nc_alive[other] = "alive"
    /\ nc_alive[n] = "none"
    /\ \A o \in NcObjects : o < n => nc_alive[o] # "none"
    /\ nc_alive' = [nc_alive EXCEPT ![n] = "alive"]
    /\ nc_comm' = [nc_comm EXCEPT ![n] = nc_comm[other], ![other] = c]
    /\ nc_aborted' = [nc_aborted EXCEPT ![n] = nc_aborted[other], ![other] = a]
    /\ nc_initialized' = [nc_initialized EXCEPT ![n] = nc_initialized[other],
                                                ![other] = FALSE]
    /\ UNCHANGED <<notNC, nc_calls, nc_log>>

\* NCCLComm::ncclCommAbort on object o, with error checking enabled; the NCCL
\* call throws through C10D_NCCL_CHECK when it does not succeed.
NcAbort(o, res) ==
    /\ nc_alive[o] = "alive"
    /\ nc_calls < MaxAbortCalls
    /\ nc_calls' = nc_calls + 1
    /\ IF AbortReturnsEarly(nc_aborted[o], nc_initialized[o])
       THEN UNCHANGED <<nc_comm, nc_aborted, nc_log>>
       ELSE /\ nc_log' = Append(nc_log,
                    [from |-> "ncclCommAbort", obj |-> o, arg |-> nc_comm[o],
                     result |-> res, aborted |-> nc_aborted[o]])
            /\ IF res = "ncclSuccess"
               THEN /\ nc_aborted' = [nc_aborted EXCEPT ![o] = TRUE]
                    /\ nc_comm' = [nc_comm EXCEPT ![o] = "null"]
               ELSE UNCHANGED <<nc_comm, nc_aborted>>
    /\ UNCHANGED <<notNC, nc_initialized, nc_alive>>

\* NCCLComm::getNcclComm on a nonblocking communicator: waitUntilInitialized
\* sets initialized_ once ncclCommGetAsyncError reports success for the handle
\* (for a handle that was never set it may report anything).
NcWaitUntilInitialized(o) ==
    /\ nc_alive[o] = "alive"
    /\ ~nc_aborted[o]
    /\ ~nc_initialized[o]
    /\ nc_comm[o] # "null"
    /\ nc_initialized' = [nc_initialized EXCEPT ![o] = TRUE]
    /\ UNCHANGED <<notNC, nc_comm, nc_aborted, nc_alive, nc_calls, nc_log>>

\* ~NCCLComm on object o
NcDestroy(o, res) ==
    /\ nc_alive[o] = "alive"
    /\ nc_alive' = [nc_alive EXCEPT ![o] = "destroyed"]
    /\ IF DestructorAborts(nc_comm[o], nc_initialized[o], nc_aborted[o])
       THEN nc_log' = Append(nc_log,
                [from |-> "~NCCLComm", obj |-> o, arg |-> nc_comm[o],
                 result |-> res, aborted |-> nc_aborted[o]])
       ELSE UNCHANGED nc_log
    /\ UNCHANGED <<notNC, nc_comm, nc_aborted, nc_initialized, nc_calls>>

NcNext ==
    \/ \E other, n \in NcObjects, c \in {"garbage", "null"}, a \in BOOLEAN :
            NcMove(other, n, c, a)
    \/ \E o \in NcObjects, res \in NcclResults : NcAbort(o, res)
    \/ \E o \in NcObjects : NcWaitUntilInitialized(o)
    \/ \E o \in NcObjects, res \in NcclResults : NcDestroy(o, res)

NCCLCommSpec == NcInit /\ [][NcNext]_vars

\* The calls object o made into NCCL, in order.
NcLogOf(o) == SelectSeq(nc_log, LAMBDA e : e.obj = o)

\* C24: no NCCLComm is aborted twice: over all ncclCommAbort calls on an object
\* and its destructor NCCL's abort succeeds at most once, and the object makes
\* no call into NCCL, or passes it the null handle, once it is aborted.
C24_AbortedAtMostOnce ==
    \A o \in NcObjects :
        LET log == NcLogOf(o)
        IN /\ Cardinality({i \in 1..Len(log) : log[i].result = "ncclSuccess"}) <= 1
           /\ \A i \in 1..Len(log) : ~log[i].aborted
           /\ \A i \in 1..Len(log) :
               (\E j \in 1..(i - 1) : log[j].result = "ncclSuccess")
                   => log[i].arg # "null"


\* ======================================================= NCCLTraceBuffer
NullOpt == 0 - 1     \* std::nullopt where an id is expected

\* NCCLTraceBuffer(): enabled_ = max_entries_ > 0
TbEnabled == tb_max > 0

\* The Entry record builds: its events borrowed, nothing discovered yet.
NewEntry(id, ev) ==
    [id |-> id, events |-> ev, completed |-> FALSE, retired |-> FALSE,
     duration |-> "none"]

\* record: emplace_back while the vector is short, else entries_[next_++] = te
EntriesAfterRecord(entries, next, max, te) ==
    IF Len(entries) < max
    THEN Append(entries, te)
    ELSE [entries EXCEPT ![next + 1] = te]

NextAfterRecord_NoWrap(entries, next, max) ==
    IF Len(entries) < max THEN next ELSE next
NextAfterRecord(entries, next, max) ==
    IF Len(entries) < max
    THEN next
    ELSE IF next + 1 = max THEN 0 ELSE next + 1

\* dump_entries: entries_[next_, end) followed by entries_[0, next_)
DumpOrder(entries, next) ==
    SubSeq(entries, next + 1, Len(entries)) \o SubSeq(entries, 1, next)

\* retire_id: &entries_.at(*id % max_entries_)
SlotOf(id, max) == (id % max) + 1

\* retire_id: entry->id_ == *id, tested when the entry is first looked up and
\* again after the lock is taken back.
EntryIsId_Any(entry, id) == TRUE
EntryIsId(entry, id) == entry.id = id

\* retire_id: guard.unlock() before getDurationFromEvent
MutexWhileDuration_Held == "watchdog"
MutexWhileDuration == "free"

TbInit ==
    /\ tb_max \in {0, MaxEntries}
    /\ tb_entries = <<>>
    /\ tb_next = 0
    /\ tb_id = 0
    /\ tb_ret = <<>>
    /\ tb_dump = <<>>
    /\ tb_mutex = "free"
    /\ tb_pc = "idle"
    /\ tb_arg = 0
    /\ tb_retires = 0
    /\ tb_out = "none"
    /\ IdleButTB

\* NCCLTraceBuffer::record, called with events (ev) or with null pointers.
TbRecord(ev) ==
    /\ Len(tb_ret) < MaxRecords
    /\ IF ~TbEnabled
       THEN /\ tb_ret' = Append(tb_ret, NullOpt)
            /\ UNCHANGED <<tb_entries, tb_next, tb_id>>
       ELSE /\ tb_mutex = "free"
            /\ tb_entries' = EntriesAfterRecord(tb_entries, tb_next, tb_max,
                                                NewEntry(tb_id, ev))
            /\ tb_next' = NextAfterRecord(tb_entries, tb_next, tb_max)
            /\ tb_ret' = Append(tb_ret, tb_id)
            /\ tb_id' = tb_id + 1
    /\ UNCHANGED <<notTB, tb_max, tb_dump, tb_mutex, tb_pc, tb_arg, tb_retires,
                   tb_out>>

\* NCCLTraceBuffer::dump_entries (the copies it updates are the caller's).
TbDump ==
    /\ tb_mutex = "free"
    /\ tb_dump' = [i \in 1..Len(tb_entries) |-> DumpOrder(tb_entries, tb_next)[i].id]
    /\ tb_dump' # tb_dump
    /\ UNCHANGED <<notTB, tb_max, tb_entries, tb_next, tb_id, tb_ret, tb_mutex,
                   tb_pc, tb_arg, tb_retires, tb_out>>

\* retire_id up to the point where it would compute the duration: q is what
\* the end event's query() answers inside update_state.
TbRetire(id, compute_duration, q) ==
    /\ tb_pc = "idle"
    /\ tb_retires < MaxRetires
    /\ tb_retires' = tb_retires + 1
    /\ tb_arg' = id
    /\ IF ~TbEnabled \/ id = NullOpt
       THEN /\ tb_out' = "returned"
            /\ UNCHANGED <<tb_entries, tb_pc, tb_mutex>>
       ELSE /\ tb_mutex = "free"
            /\ LET slot == SlotOf(id, tb_max)
                   entry == tb_entries[slot]
                   completed == entry.completed \/ (entry.events /\ q)
                   can_compute_duration ==
                       compute_duration /\ completed /\ entry.events
               IN IF EntryIsId(entry, id)
                  THEN /\ tb_entries' = [tb_entries EXCEPT ![slot] =
                              [entry EXCEPT !.completed = completed,
                                            !.retired = TRUE,
                                            !.events = FALSE]]
                       /\ IF can_compute_duration
                          THEN /\ tb_pc' = "duration"
                               /\ tb_mutex' = MutexWhileDuration
                               /\ tb_out' = "computing"
                          ELSE /\ tb_out' = "retired"
                               /\ UNCHANGED <<tb_pc, tb_mutex>>
                  ELSE /\ tb_out' = "stale"
                       /\ UNCHANGED <<tb_entries, tb_pc, tb_mutex>>
    /\ UNCHANGED <<notTB, tb_max, tb_next, tb_id, tb_ret, tb_dump>>

\* retire_id after getDurationFromEvent: lock again, look the entry up again.
TbRetireDuration ==
    /\ tb_pc = "duration"
    /\ tb_mutex \in {"free", "watchdog"}
    /\ LET slot == SlotOf(tb_arg, tb_max)
           entry == tb_entries[slot]
       IN IF EntryIsId(entry, tb_arg)
          THEN /\ tb_entries' = [tb_entries EXCEPT ![slot].duration = "ms"]
               /\ tb_out' = "timed"
          ELSE /\ tb_out' = "abandoned"
               /\ UNCHANGED tb_entries
    /\ tb_pc' = "idle"
    /\ tb_mutex' = "free"
    /\ UNCHANGED <<notTB, tb_max, tb_next, tb_id, tb_ret, tb_dump, tb_arg,
                   tb_retires>>

TbNext ==
    \/ \E ev \in BOOLEAN : TbRecord(ev)
    \/ TbDump
    \/ \E id \in {NullOpt} \cup (0..(tb_id - 1)), c \in BOOLEAN, q \in BOOLEAN :
            TbRetire(id, c, q)
    \/ TbRetireDuration

TraceBufferSpec == TbInit /\ [][TbNext]_vars

TbMin(a, b) == IF a < b THEN a ELSE b

\* C25: on an enabled buffer the n record calls returned 0, 1, ..., n-1 in
\* call order; the buffer holds the most recent min(n, max_entries_) entries,
\* the entry of id i at index i mod max_entries_; and dump_entries returned the
\* most recent entries of its moment in strictly ascending id order.
C25_RingOrder ==
    TbEnabled =>
        /\ tb_ret = [i \in 1..Len(tb_ret) |-> i - 1]
        /\ Len(tb_entries) = TbMin(Len(tb_ret), tb_max)
        /\ \A i \in 0..(Len(tb_ret) - 1) :
            i >= Len(tb_ret) - tb_max => tb_entries[(i % tb_max) + 1].id = i
        /\ \A k \in 1..(Len(tb_dump) - 1) : tb_dump[k + 1] = tb_dump[k] + 1
        /\ tb_dump # <<>> =>
            /\ tb_dump[Len(tb_dump)] < Len(tb_ret)
            /\ Len(tb_dump) = TbMin(tb_dump[Len(tb_dump)] + 1, tb_max)

\* Four records went into a buffer of two slots, which wrapped round twice,
\* and the dump taken then gave the ids 2 and 3.
C25_Witness ==
    /\ TbEnabled
    /\ Len(tb_ret) = 4
    /\ tb_next = 0
    /\ tb_entries[1].id = 2
    /\ tb_dump = <<2, 3>>

TbSlots == 1..Len(tb_entries)

\* A step of retire_id: the call, or its return from computing the duration.
TbRetireStep == tb_retires' # tb_retires \/ (tb_pc = "duration" /\ tb_pc' = "idle")

\* C26: retire_id(id) changes no entry but the one whose id_ is id, whether
\* the slot was overwritten before the call or while the duration was being
\* computed; and the mutex is free while the duration is computed.
C26_RetireOnlyOwnEntry ==
    /\ [](tb_pc = "duration" => tb_mutex = "free")
    /\ [][TbRetireStep =>
            \A k \in TbSlots :
                tb_entries'[k] # tb_entries[k] =>
                    /\ tb_entries[k].id = tb_arg'
                    /\ tb_entries'[k].id = tb_arg']_vars

\* retire_id(0) found its slot overwritten by the entry of id 2 when it came
\* back from computing the duration, and left that entry as record made it.
C26_Witness ==
    /\ tb_out = "abandoned"
    /\ tb_arg = 0
    /\ tb_entries[1] = NewEntry(2, TRUE)


\* ======================================================= Dynamo eval frame
Callbacks == {"None", "False", "callable"}
LookupResults == {"NULL", "None", "code"}
CallbackResults == {"NULL", "skip_code_recursive_flag", "None", "guarded_code"}

\* The return path _custom_eval_frame takes.
EvalPath(throw_flag, extra, callback, locals_error, lookup, cbresult) ==
    IF throw_flag THEN "throw"
    ELSE IF extra = "SKIP_CODE" \/ (callback = "False" /\ extra = "NULL")
    THEN "skip"
    ELSE IF extra = "SKIP_CODE_RECURSIVE" THEN "skip_recursive"
    ELSE IF locals_error THEN "locals_error"
    ELSE IF callback = "False"
    THEN IF lookup = "NULL" THEN "run_only_error"
         ELSE IF lookup = "None" THEN "run_only_miss"
         ELSE "run_only_hit"
    ELSE IF lookup = "NULL" THEN "lookup_error"
    ELSE IF lookup # "None" THEN "cache_hit"
    ELSE IF cbresult = "NULL" THEN "callback_error"
    ELSE IF cbresult = "skip_code_recursive_flag" THEN "create_skip_recursive"
    ELSE IF cbresult # "None" THEN "create_cache"
    ELSE "create_skip"

\* The paths that execute *should_clear_frame = 1.
ShouldClear_CustomCodeOnly(path) ==
    path \in {"run_only_hit", "cache_hit", "create_cache"}
ShouldClear(path) ==
    path \in {"locals_error", "run_only_error", "run_only_hit", "lookup_error",
              "cache_hit", "callback_error", "create_cache"}

\* The paths that hand the original frame to eval_frame_default.
EvaluatesDefault(path) ==
    path \in {"throw", "skip", "skip_recursive", "run_only_miss",
              "create_skip_recursive", "create_skip"}

\* The paths that end with eval_frame_callback_set(callback), and those of
\* them that run the frame before it.
RestoresCallback(path) ==
    path \in {"skip_recursive", "cache_hit", "create_skip_recursive",
              "create_cache", "create_skip"}
RestoresAfterFrame(path) == path \in {"skip_recursive", "create_skip_recursive"}

\* init_and_set_extra_state, called when extra == NULL
init_and_set_extra_state(extra) == IF extra = "NULL" THEN "empty" ELSE extra

\* The code object's extra state after the callback's result is handled, when
\* the ExtraState taken at entry is still the code object's.
ExtraAfter(path, extra) ==
    IF path = "create_skip_recursive" THEN "SKIP_CODE_RECURSIVE"
    ELSE IF path = "create_skip" THEN "SKIP_CODE"
    ELSE IF path = "create_cache" THEN "cached"
    ELSE extra

\* What lookup can answer: an entry or a guard error need a cache entry.
LookupMay(extra) == IF extra = "cached" THEN LookupResults ELSE {"None"}

\* set_extra_state destroys the ExtraState the code object holds; the calls in
\* progress that took a pointer to it at entry and have not finished with it are
\* left with a dangling pointer.
\* The locals of a call that is running the frame, by the given path: the
\* callback is kept where it is still to be written back.
EfRunning(path, callback) ==
    [callback |-> IF RestoresAfterFrame(path) THEN callback ELSE "None",
     path |-> path, stale |-> FALSE]

FrameAfterSetExtraState(frame, at, extra) ==
    IF at \in {"lookup", "callback"} /\ extra \in {"empty", "cached"}
    THEN [frame EXCEPT !.stale = TRUE]
    ELSE frame
FramesAfterSetExtraState(frames, pcs, extra) ==
    [u \in Threads |-> FrameAfterSetExtraState(frames[u], pcs[u], extra)]
RECURSIVE StackAfterSetExtraState(_, _)
StackAfterSetExtraState(stack, extra) ==
    IF stack = <<>> THEN <<>>
    ELSE <<[pc |-> Head(stack).pc,
            frame |-> FrameAfterSetExtraState(Head(stack).frame, Head(stack).pc,
                                              extra)]>>
         \o StackAfterSetExtraState(Tail(stack), extra)
StacksAfterSetExtraState(stacks, extra) ==
    [u \in Threads |-> StackAfterSetExtraState(stacks[u], extra)]

EfInit ==
    /\ ef_callback = [t \in Threads |-> "None"]
    /\ ef_active = 0
    /\ ef_shim = FALSE
    /\ ef_extra = "NULL"
    /\ ef_evals = 0
    /\ ef_pc = [t \in Threads |-> "idle"]
    /\ ef_frame = [t \in Threads |-> EfNoFrame]
    /\ ef_stack = [t \in Threads |-> <<>>]
    /\ ef_last = EfNoEval
    /\ IdleButEF

\* increment_working_threads and enable_eval_frame_shim
ActiveAfterIncrement(active) == active + 1
\* decrement_working_threads
ActiveAfterDecrement(active) == IF active > 0 THEN active - 1 ELSE active

\* set_eval_frame(new_callback) on thread t, from the top level or from the
\* Python code that a frame evaluation of the thread is running.
set_eval_frame(t, new_callback) ==
    /\ new_callback # ef_callback[t]
    /\ LET old_callback == ef_callback[t]
       IN IF old_callback # "None" /\ new_callback = "None"
          THEN /\ ef_active' = ActiveAfterDecrement(ef_active)
               /\ ef_shim' = IF ef_active > 0 /\ ef_active' = 0 THEN FALSE ELSE ef_shim
          ELSE IF old_callback = "None" /\ new_callback # "None"
          THEN /\ ef_active' = ActiveAfterIncrement(ef_active)
               /\ ef_shim' = IF ef_active' > 0 THEN TRUE ELSE ef_shim
          ELSE UNCHANGED <<ef_active, ef_shim>>
    /\ ef_callback' = [ef_callback EXCEPT ![t] = new_callback]
    /\ UNCHANGED <<notEF, ef_extra, ef_evals, ef_pc, ef_frame, ef_stack, ef_last>>

\* What a _custom_eval_frame call that returns by the given path leaves;
\* default tells whether the frame was handed to eval_frame_default.
EfLast(path, default) ==
    [path |-> path, should_clear_frame |-> ShouldClear(path), default |-> default]

\* The innermost _custom_eval_frame call of thread t returns by the given
\* path, to the Python code of the call that waits for it if there is one.
EfReturn(t, path, default) ==
    /\ ef_last' = EfLast(path, default)
    /\ IF ef_stack[t] = <<>>
       THEN /\ ef_pc' = [ef_pc EXCEPT ![t] = "idle"]
            /\ ef_frame' = [ef_frame EXCEPT ![t] = EfNoFrame]
            /\ UNCHANGED ef_stack
       ELSE /\ ef_pc' = [ef_pc EXCEPT ![t] = Head(ef_stack[t]).pc]
            /\ ef_frame' = [ef_frame EXCEPT ![t] = Head(ef_stack[t]).frame]
            /\ ef_stack' = [ef_stack EXCEPT ![t] = Tail(ef_stack[t])]

\* The calls of thread t in progress once it enters _custom_eval_frame again.
EfPushed(t) ==
    IF ef_pc[t] = "idle" THEN ef_stack[t]
    ELSE <<[pc |-> ef_pc[t], frame |-> ef_frame[t]]>> \o ef_stack[t]

\* _custom_eval_frame_shim on thread t with a callback: _custom_eval_frame
\* from entry up to the first Python code it runs (the frame itself, or the
\* guards of lookup).  The frame is one the thread evaluates from the top
\* level, or one that the Python code of its innermost call evaluates.
\* locals_error is the failure of THP_PyFrame_FastToLocalsWithError (builds
\* before Python 3.12).
custom_eval_frame(t, throw_flag, locals_error) ==
    /\ ef_shim
    /\ ef_callback[t] # "None"
    /\ ef_evals < MaxEvals
    /\ ef_evals' = ef_evals + 1
    /\ LET callback == ef_callback[t]
           path == EvalPath(throw_flag, ef_extra, callback, locals_error,
                            "None", "None")
       IN IF path \in {"throw", "skip", "skip_recursive"}
          THEN /\ ef_pc' = [ef_pc EXCEPT ![t] = "default"]
               /\ ef_frame' = [ef_frame EXCEPT ![t] = EfRunning(path, callback)]
               /\ ef_stack' = [ef_stack EXCEPT ![t] = EfPushed(t)]
               /\ ef_callback' = IF path = "skip_recursive"
                                 THEN [ef_callback EXCEPT ![t] = "None"]
                                 ELSE ef_callback
               /\ UNCHANGED <<ef_extra, ef_last>>
          ELSE /\ ef_extra' = init_and_set_extra_state(ef_extra)
               /\ IF path = "locals_error"
                  THEN /\ ef_last' = EfLast(path, FALSE)
                       /\ UNCHANGED <<ef_callback, ef_pc, ef_frame, ef_stack>>
                  ELSE /\ ef_pc' = [ef_pc EXCEPT ![t] = "lookup"]
                       /\ ef_frame' = [ef_frame EXCEPT ![t] =
                               [callback |-> callback, path |-> "none",
                                stale |-> FALSE]]
                       /\ ef_stack' = [ef_stack EXCEPT ![t] = EfPushed(t)]
                       /\ ef_callback' = IF callback = "False"
                                         THEN ef_callback
                                         ELSE [ef_callback EXCEPT ![t] = "None"]
                       /\ UNCHANGED ef_last
    /\ UNCHANGED <<notEF, ef_active, ef_shim>>

\* lookup(extra, locals, backend) returns to _custom_eval_frame on thread t.
\* With a dangling extra it may answer anything.
EfLookupReturns(t, lookup) ==
    /\ ef_pc[t] = "lookup"
    /\ ef_frame[t].stale \/ lookup \in LookupMay(ef_extra)
    /\ LET callback == ef_frame[t].callback
           path == EvalPath(FALSE, "empty", callback, FALSE, lookup, "None")
       IN IF path \in {"run_only_error", "lookup_error"}
          THEN /\ EfReturn(t, path, FALSE)
               /\ UNCHANGED ef_callback
          ELSE IF path \in {"run_only_miss", "run_only_hit", "cache_hit"}
          THEN /\ ef_pc' = [ef_pc EXCEPT ![t] =
                       IF path = "run_only_miss" THEN "default" ELSE "custom"]
               /\ ef_frame' = [ef_frame EXCEPT ![t] = EfRunning(path, callback)]
               /\ ef_callback' = IF RestoresCallback(path)
                                 THEN [ef_callback EXCEPT ![t] = callback]
                                 ELSE ef_callback
               /\ UNCHANGED <<ef_last, ef_stack>>
          ELSE /\ ef_pc' = [ef_pc EXCEPT ![t] = "callback"]
               /\ UNCHANGED <<ef_frame, ef_callback, ef_last, ef_stack>>
    /\ UNCHANGED <<notEF, ef_active, ef_shim, ef_extra, ef_evals>>

\* call_callback returns to _custom_eval_frame on thread t.  create_cache_entry
\* writes through the extra pointer taken at entry: when that is dangling the
\* write is lost, or lands in the ExtraState that took its place.
EfCallbackReturns(t, cbresult) ==
    /\ ef_pc[t] = "callback"
    /\ LET callback == ef_frame[t].callback
           path == EvalPath(FALSE, "empty", callback, FALSE, "None", cbresult)
       IN IF path = "callback_error"
          THEN /\ EfReturn(t, path, FALSE)
               /\ UNCHANGED <<ef_callback, ef_extra>>
          ELSE /\ ef_pc' = [ef_pc EXCEPT ![t] =
                       IF path = "create_cache" THEN "custom" ELSE "default"]
               /\ IF path = "create_cache"
                  THEN /\ ef_extra' \in
                            IF ~ef_frame[t].stale THEN {ExtraAfter(path, ef_extra)}
                            ELSE IF ef_extra \in {"empty", "cached"}
                            THEN {ef_extra, ExtraAfter(path, ef_extra)}
                            ELSE {ef_extra}
                       /\ ef_frame' = [ef_frame EXCEPT ![t] =
                               EfRunning(path, callback)]
                       /\ UNCHANGED ef_stack
                  ELSE /\ ef_extra' = ExtraAfter(path, ef_extra)
                       /\ ef_frame' =
                            [FramesAfterSetExtraState(ef_frame, ef_pc, ef_extra)
                                EXCEPT ![t] = EfRunning(path, callback)]
                       /\ ef_stack' = StacksAfterSetExtraState(ef_stack, ef_extra)
               /\ ef_callback' = IF RestoresCallback(path) /\ ~RestoresAfterFrame(path)
                                 THEN [ef_callback EXCEPT ![t] = callback]
                                 ELSE ef_callback
               /\ UNCHANGED ef_last
    /\ UNCHANGED <<notEF, ef_active, ef_shim, ef_evals>>

\* eval_frame_default or eval_custom_code returns to _custom_eval_frame on
\* thread t, which returns after eval_frame_callback_set(callback) on the
\* paths that restore the callback last.
EfFrameReturns(t) ==
    /\ ef_pc[t] \in {"default", "custom"}
    /\ EfReturn(t, ef_frame[t].path, ef_pc[t] = "default")
    /\ ef_callback' = IF RestoresAfterFrame(ef_frame[t].path)
                      THEN [ef_callback EXCEPT ![t] = ef_frame[t].callback]
                      ELSE ef_callback
    /\ UNCHANGED <<notEF, ef_active, ef_shim, ef_extra, ef_evals>>

\* reset_code: set_extra_state(code, NULL)
reset_code ==
    /\ ef_extra # "NULL"
    /\ ef_extra' = "NULL"
    /\ ef_frame' = FramesAfterSetExtraState(ef_frame, ef_pc, ef_extra)
    /\ ef_stack' = StacksAfterSetExtraState(ef_stack, ef_extra)
    /\ UNCHANGED <<notEF, ef_callback, ef_active, ef_shim, ef_evals, ef_pc, ef_last>>

\* skip_code: set_extra_state(code, SKIP_CODE)
skip_code ==
    /\ ef_extra # "SKIP_CODE"
    /\ ef_extra' = "SKIP_CODE"
    /\ ef_frame' = FramesAfterSetExtraState(ef_frame, ef_pc, ef_extra)
    /\ ef_stack' = StacksAfterSetExtraState(ef_stack, ef_extra)
    /\ UNCHANGED <<notEF, ef_callback, ef_active, ef_shim, ef_evals, ef_pc, ef_last>>

EfNext ==
    \/ \E t \in Threads, cb \in Callbacks : set_eval_frame(t, cb)
    \/ \E t \in Threads, throw_flag \in BOOLEAN, locals_error \in BOOLEAN :
            custom_eval_frame(t, throw_flag, locals_error)
    \/ \E t \in Threads, lookup \in LookupResults : EfLookupReturns(t, lookup)
    \/ \E t \in Threads, res \in CallbackResults : EfCallbackReturns(t, res)
    \/ \E t \in Threads : EfFrameReturns(t)
    \/ reset_code
    \/ skip_code

EvalFrameSpec == EfInit /\ [][EfNext]_vars

\* C27: on every return path of _custom_eval_frame, should_clear_frame is set
\* if and only if the original frame was not given to eval_frame_default.
C27_ClearIffNotDefault ==
    ef_last.path # "none" => (ef_last.should_clear_frame <=> ~ef_last.default)

\* A run-only cache miss: the frame went to eval_frame_default with the flag
\* left unset.
C27_Witness ==
    /\ ef_last.path = "run_only_miss"
    /\ ~ef_last.should_clear_frame
    /\ ef_last.default

\* C28: whenever no frame evaluation is in progress active_dynamo_threads is
\* the number of threads whose callback is not None, and the shim is installed
\* exactly when that number is positive.
C28_ActiveThreadsCounted ==
    (\A t \in Threads : ef_pc[t] = "idle") =>
        /\ ef_active = Cardinality({t \in Threads : ef_callback[t] # "None"})
        /\ (ef_shim <=> ef_active > 0)


\* ======================================================= the current XPU device
\* The pool has been initialised (initDevicePoolCallOnce has returned once);
\* every thread's curDeviceIndex starts at 0.
XdInit ==
    /\ xd_devices \in 0..MaxDevices
    /\ xd_cur = [t \in Threads |-> 0]
    /\ xd_last = XdNoCall
    /\ IdleButXD

XdCall(t, fn, arg, out, ret) ==
    [t |-> t, fn |-> fn, arg |-> arg, out |-> out, ret |-> ret, before |-> xd_cur]

\* device_count()
XdDeviceCount(t) ==
    /\ xd_last' = XdCall(t, "device_count", 0, "ok", xd_devices)
    /\ xd_last' # xd_last
    /\ UNCHANGED <<notXD, xd_devices, xd_cur>>

\* current_device(): return curDeviceIndex;
XdCurrentDevice(t) ==
    /\ xd_last' = XdCall(t, "current_device", 0, "ok", xd_cur[t])
    /\ xd_last' # xd_last
    /\ UNCHANGED <<notXD, xd_devices, xd_cur>>

\* set_device(device): check_device(device); curDeviceIndex = device;
XdSetDevice(t, device) ==
    /\ IF check_device(device, xd_devices)
       THEN /\ xd_cur' = [xd_cur EXCEPT ![t] = device]
            /\ xd_last' = XdCall(t, "set_device", device, "ok", 0)
       ELSE /\ xd_cur' = xd_cur
            /\ xd_last' = XdCall(t, "set_device", device, "error", 0)
    /\ xd_last' # xd_last
    /\ UNCHANGED <<notXD, xd_devices>>

\* exchange_device(to_device): return at once when to_device is the current
\* device, else set_device(to_device) and return the device that was current.
XdExchangeDevice(t, to_device) ==
    /\ LET cur_device == xd_cur[t]
       IN IF to_device = cur_device
          THEN /\ xd_cur' = xd_cur
               /\ xd_last' = XdCall(t, "exchange_device", to_device, "ok", cur_device)
          ELSE IF check_device(to_device, xd_devices)
          THEN /\ xd_cur' = [xd_cur EXCEPT ![t] = to_device]
               /\ xd_last' = XdCall(t, "exchange_device", to_device, "ok", cur_device)
          ELSE /\ xd_cur' = xd_cur
               /\ xd_last' = XdCall(t, "exchange_device", to_device, "error", 0)
    /\ xd_last' # xd_last
    /\ UNCHANGED <<notXD, xd_devices>>

XdNext ==
    \/ \E t \in Threads : XdDeviceCount(t)
    \/ \E t \in Threads : XdCurrentDevice(t)
    \/ \E t \in Threads, device \in DevArgs : XdSetDevice(t, device)
    \/ \E t \in Threads, to_device \in DevArgs : XdExchangeDevice(t, to_device)

XpuDeviceSpec == XdInit /\ [][XdNext]_vars

XdInRange(device) == device >= 0 /\ device < xd_devices

\* A call that succeeded changed no thread's device but the caller's, and
\* exchange_device returned the caller's device of before the call.
XdCallerOnly ==
    /\ xd_last.out = "ok" =>
        \A u \in Threads : u # xd_last.t => xd_cur[u] = xd_last.before[u]
    /\ (xd_last.fn = "exchange_device" /\ xd_last.out = "ok") =>
        xd_last.ret = xd_last.before[xd_last.t]
    /\ (xd_last.fn \in {"set_device", "exchange_device"} /\ xd_last.out = "ok") =>
        xd_cur[xd_last.t] = xd_last.arg

\* C29 as stated: every thread's current device is an index in
\* [0, device_count()), current_device() returns such an index, set_device(d)
\* and exchange_device(d) with d out of range fail and leave the caller's
\* device as it was, and a successful call changes only the caller's device,
\* exchange_device returning the device of before.
C29_AlwaysExistingDevice ==
    /\ \A t \in Threads : XdInRange(xd_cur[t])
    /\ xd_last.fn = "current_device" => XdInRange(xd_last.ret)
    /\ (xd_last.fn \in {"set_device", "exchange_device"} /\ ~XdInRange(xd_last.arg)) =>
        /\ xd_last.out = "error"
        /\ xd_cur = xd_last.before
    /\ XdCallerOnly

\* C29, amended: the current device is in [0, device_count()) whenever a
\* device exists and is 0 when none does; set_device(d) with d out of range,
\* and exchange_device(d) with such a d other than the current device, fail
\* and leave the caller's device as it was; a successful call changes only
\* the caller's device, exchange_device returning the device of before.
C29_ExistingDeviceIfAny ==
    /\ \A t \in Threads :
        IF xd_devices > 0 THEN XdInRange(xd_cur[t]) ELSE xd_cur[t] = 0
    /\ xd_last.fn = "current_device" => xd_last.ret = xd_cur[xd_last.t]
    /\ (xd_last.fn = "set_device" /\ ~XdInRange(xd_last.arg)) =>
        /\ xd_last.out = "error"
        /\ xd_cur = xd_last.before
    /\ (/\ xd_last.fn = "exchange_device"
        /\ ~XdInRange(xd_last.arg)
        /\ xd_last.arg # xd_last.before[xd_last.t]) =>
        /\ xd_last.out = "error"
        /\ xd_cur = xd_last.before
    /\ XdCallerOnly

\* With two devices, thread 2 on device 1, thread 1 exchanged device 0 for
\* device 1 and got 0 back.
C29_Witness ==
    /\ xd_devices = 2
    /\ xd_last = [t |-> 1, fn |-> "exchange_device", arg |-> 1, out |-> "ok",
                  ret |-> 0, before |-> <<0, 1>>]
    /\ xd_cur = <<1, 1>>


\* ======================================================= ThreadPoolImpl::run
kDefaultMinWorkSize == 1

\* numThreads_ is a size_t.  A value of 2^63 or more is held as the negative
\* int that has the same 64 bits: createThreadPool(-1) leaves 2^64 - 1, held
\* as -1.  The comparisons of the code are unsigned.
TpHuge(n) == n < 0
TpLess(a, b) == IF TpHuge(a) = TpHuge(b) THEN a < b ELSE TpHuge(b)
TpMinOf(a, b) == IF TpLess(a, b) THEN a ELSE b

\* ThreadPoolImpl(int numThreads): numThreads_(numThreads).  The conversion
\* of the int to size_t extends its sign, so the 64 bits of numThreads_ read
\* as a signed number are the argument; read as the code reads them, through
\* TpHuge and TpLess, a negative argument is 2^64 minus its magnitude.
CreateArgs == {-1} \cup (0..MaxPoolThreads)
ThreadPoolImpl(numThreads) == numThreads

\* run: range < minWorkSize_ || FLAGS_caffe2_threadpool_force_inline ||
\* numThreads == 0
runLocally(range, minWorkSize, force, numThreads) ==
    range < minWorkSize \/ force \/ numThreads = 0

\* run: unitsPerTask = (range + numThreads - 1) / numThreads
UnitsPerTask_Floor(range, numThreads) == range \div numThreads
UnitsPerTask(range, numThreads) == (range + numThreads - 1) \div numThreads

\* run: the loop that fills tasks_[i] and cuts tasks_ at the first empty task.
RECURSIVE BuildTasks(_, _, _, _, _)
BuildTasks(i, numThreads, range, unitsPerTask, tasks) ==
    IF i = numThreads
    THEN tasks
    ELSE LET start == TpMinOf(range, i * unitsPerTask)
             end == TpMinOf(range, (i + 1) * unitsPerTask)
         IN IF start >= end
            THEN tasks
            ELSE BuildTasks(i + 1, numThreads, range, unitsPerTask,
                            Append(tasks, [idx |-> i, start |-> start, end |-> end]))

\* WorkersPool::Execute runs every task once and waits for all of them;
\* FnTask::Run calls fn for start_ <= i < end_.
ExecuteCalls(tasks) ==
    [i \in TpIndices |->
        Cardinality({k \in 1..Len(tasks) : tasks[k].start <= i /\ i < tasks[k].end})]

\* The local loop: fn(0, i) for i < range.
LocalCalls(range) == [i \in TpIndices |-> IF i < range THEN 1 ELSE 0]

TpInit ==
    /\ tp_hw \in 1..MaxPoolThreads
    /\ tp_default \in {0, tp_hw}
    /\ tp_numThreads \in {ThreadPoolImpl(n) : n \in CreateArgs}
    /\ tp_force \in BOOLEAN
    /\ tp_mutex = 0
    /\ tp_pc = [t \in Threads |-> "idle"]
    /\ tp_local = [t \in Threads |-> TpNoCall]
    /\ tp_runs = 0
    /\ tp_tasks = <<>>
    /\ tp_calls = [i \in TpIndices |-> 0]
    /\ tp_last = TpNoRun
    /\ IdleButTP

\* ThreadPool::defaultThreadPool(), called for another pool: the static
\* defaultNumThreads_ is assigned, this pool's numThreads_ is left alone.
defaultThreadPool ==
    /\ tp_default # tp_hw
    /\ tp_default' = tp_hw
    /\ UNCHANGED <<notTP, tp_runs, tp_hw, tp_numThreads, tp_force, tp_mutex, tp_pc,
                   tp_local, tp_tasks, tp_calls, tp_last>>

\* ThreadPoolImpl::setNumThreads; it takes no lock.
setNumThreads(numThreads) ==
    /\ tp_default' = IF tp_default = 0 THEN tp_hw ELSE tp_default
    /\ tp_numThreads' = TpMinOf(numThreads, tp_default')
    /\ tp_numThreads' # tp_numThreads \/ tp_default' # tp_default
    /\ UNCHANGED <<notTP, tp_runs, tp_hw, tp_force, tp_mutex, tp_pc, tp_local, tp_tasks,
                   tp_calls, tp_last>>

\* ThreadPoolImpl::run(fn, range) on thread t: numThreads_.load() into the
\* local numThreads, before the lock is asked for.
TpRun(t, range) ==
    /\ tp_pc[t] = "idle"
    /\ tp_runs < MaxRuns
    /\ tp_runs' = tp_runs + 1
    /\ tp_pc' = [tp_pc EXCEPT ![t] = "lock"]
    /\ tp_local' = [tp_local EXCEPT ![t] =
            [range |-> range, numThreads |-> tp_numThreads]]
    /\ UNCHANGED <<notTP, tp_hw, tp_default, tp_numThreads, tp_force, tp_mutex,
                   tp_tasks, tp_calls, tp_last>>

\* run: std::lock_guard<std::mutex> guard(executionMutex_)
TpLock(t) ==
    /\ tp_pc[t] = "lock"
    /\ tp_mutex = 0
    /\ tp_mutex' = t
    /\ tp_pc' = [tp_pc EXCEPT ![t] = "body"]
    /\ UNCHANGED <<notTP, tp_runs, tp_hw, tp_default, tp_numThreads, tp_force, tp_local,
                   tp_tasks, tp_calls, tp_last>>

\* run under the lock: the local loop, or CAFFE_ENFORCE_GE(numThreads_, 1),
\* which reads numThreads_ again, tasks_.resize(numThreads), which throws
\* std::length_error for a size of 2^63 or more, and the loop that fills
\* tasks_.  A return and a throw release the lock.
TpBody(t) ==
    /\ tp_pc[t] = "body"
    /\ LET range == tp_local[t].range
           numThreads == tp_local[t].numThreads
           tasks == BuildTasks(0, numThreads, range,
                               UnitsPerTask(range, numThreads), <<>>)
       IN IF runLocally(range, kDefaultMinWorkSize, tp_force, numThreads)
          THEN /\ tp_calls' = LocalCalls(range)
               /\ tp_last' = [mode |-> "local", range |-> range,
                              numThreads |-> numThreads]
               /\ tp_mutex' = 0
               /\ tp_pc' = [tp_pc EXCEPT ![t] = "idle"]
               /\ tp_local' = [tp_local EXCEPT ![t] = TpNoCall]
               /\ UNCHANGED tp_tasks
          ELSE IF TpLess(tp_numThreads, 1) \/ TpHuge(numThreads)
          THEN /\ tp_calls' = [i \in TpIndices |-> 0]
               /\ tp_last' = [mode |-> "throw", range |-> range,
                              numThreads |-> numThreads]
               /\ tp_mutex' = 0
               /\ tp_pc' = [tp_pc EXCEPT ![t] = "idle"]
               /\ tp_local' = [tp_local EXCEPT ![t] = TpNoCall]
               /\ UNCHANGED tp_tasks
          ELSE IF Len(tasks) <= numThreads /\ Len(tasks) >= 1
          THEN /\ tp_tasks' = tasks
               /\ tp_pc' = [tp_pc EXCEPT ![t] = "execute"]
               /\ UNCHANGED <<tp_calls, tp_last, tp_mutex, tp_local>>
          ELSE /\ tp_tasks' = tasks
               /\ tp_calls' = [i \in TpIndices |-> 0]
               /\ tp_last' = [mode |-> "throw", range |-> range,
                              numThreads |-> numThreads]
               /\ tp_mutex' = 0
               /\ tp_pc' = [tp_pc EXCEPT ![t] = "idle"]
               /\ tp_local' = [tp_local EXCEPT ![t] = TpNoCall]
    /\ UNCHANGED <<notTP, tp_runs, tp_hw, tp_default, tp_numThreads, tp_force>>

\* workersPool_->Execute(tasks_) returns; run returns and releases the lock.
TpExecute(t) ==
    /\ tp_pc[t] = "execute"
    /\ tp_calls' = ExecuteCalls(tp_tasks)
    /\ tp_last' = [mode |-> "split", range |-> tp_local[t].range,
                   numThreads |-> tp_local[t].numThreads]
    /\ tp_mutex' = 0
    /\ tp_pc' = [tp_pc EXCEPT ![t] = "idle"]
    /\ tp_local' = [tp_local EXCEPT ![t] = TpNoCall]
    /\ UNCHANGED <<notTP, tp_runs, tp_hw, tp_default, tp_numThreads, tp_force, tp_tasks>>

\* ThreadPoolImpl::withPool(f) on thread t takes the lock and calls f.
withPool(t) ==
    /\ tp_pc[t] = "idle"
    /\ tp_mutex = 0
    /\ tp_mutex' = t
    /\ tp_pc' = [tp_pc EXCEPT ![t] = "withPool"]
    /\ UNCHANGED <<notTP, tp_runs, tp_hw, tp_default, tp_numThreads, tp_force, tp_local,
                   tp_tasks, tp_calls, tp_last>>

\* f returns; withPool returns and releases the lock.
TpWithPoolReturns(t) ==
    /\ tp_pc[t] = "withPool"
    /\ tp_mutex' = 0
    /\ tp_pc' = [tp_pc EXCEPT ![t] = "idle"]
    /\ UNCHANGED <<notTP, tp_runs, tp_hw, tp_default, tp_numThreads, tp_force, tp_local,
                   tp_tasks, tp_calls, tp_last>>

TpNext ==
    \/ defaultThreadPool
    \/ \E numThreads \in 0..MaxPoolThreads : setNumThreads(numThreads)
    \/ \E t \in Threads, range \in 0..MaxRange : TpRun(t, range)
    \/ \E t \in Threads : TpLock(t)
    \/ \E t \in Threads : TpBody(t)
    \/ \E t \in Threads : TpExecute(t)
    \/ \E t \in Threads : withPool(t)
    \/ \E t \in Threads : TpWithPoolReturns(t)

ThreadPoolSpec == TpInit /\ [][TpNext]_vars

\* C30: run(fn, range) has called fn once for every index below range and for
\* no other index, run locally or split; a split run built between 1 and
\* numThreads tasks whose ranges are non-empty, follow one another without gap
\* or overlap, start at 0 and end at range.
C30_EveryIndexOnce ==
    tp_last.mode # "none" =>
        /\ tp_last.mode # "throw"
        /\ \A i \in TpIndices : tp_calls[i] = IF i < tp_last.range THEN 1 ELSE 0
        /\ tp_last.mode = "split" =>
            /\ Len(tp_tasks) >= 1
            /\ Len(tp_tasks) <= tp_last.numThreads
            /\ tp_tasks[1].start = 0
            /\ tp_tasks[Len(tp_tasks)].end = tp_last.range
            /\ \A k \in 1..Len(tp_tasks) : tp_tasks[k].start < tp_tasks[k].end
            /\ \A k \in 1..(Len(tp_tasks) - 1) : tp_tasks[k + 1].start = tp_tasks[k].end

\* A range of 4 split for 3 threads: two tasks of two indices each, the third
\* task empty and cut off.
C30_Witness ==
    /\ tp_last = [mode |-> "split", range |-> 4, numThreads |-> 3]
    /\ Len(tp_tasks) = 2
    /\ tp_tasks[2] = [idx |-> 1, start |-> 2, end |-> 4]
    /\ tp_calls[3] = 1

====
